---- MODULE Spec2Model ----
(***************************************************************************)
(* The collection engine of the app-tracker agent: collector.Manager       *)
(* (agent/internal/collector/manager.go), the goroutines it starts every   *)
(* tick, its subscriber channels, and the websocket handler that consumes  *)
(* them (Server.handleWebSocket).                                          *)
(*                                                                         *)
(* A *AggregatedData is a pointer: the object allocated by the n-th call   *)
(* of collect is pointer n, the object allocated by NewManager is pointer  *)
(* 0, and heap maps a pointer to the object's fields.  Channels, the       *)
(* cached latestData and the readers hold pointers, as in the Go code.     *)
(***************************************************************************)
EXTENDS Integers, Sequences, FiniteSets, TLC

\* ------------------------------------------------------------------ bounds

\* collect calls explored by Spec (the full fan-out with failing collectors)
MaxTicks == 2
\* collect calls explored by SpecPub (enough to fill a subscriber channel)
MaxPubTicks == 12
\* Subscribe calls (websocket connections) over a run of SpecPub
MaxSubs == 2
\* Subscribe calls over a run of Spec
MaxSpecSubs == 1

\* make(chan *AggregatedData, 10)
ChanCap == 10

\* ------------------------------------------------------------ entity model

NoSystem == "nil"

\* ProcessInfo: the identity key and the enrichment fields
Proc(pid, cid, unit) ==
  [PID |-> pid, ContainerID |-> cid, ContainerName |-> "", PodName |-> "",
   PodNamespace |-> "", SystemdUnit |-> unit]

\* PortInfo: the identity key, the owning pid and the enrichment fields
PortE(port, pid) ==
  [Port |-> port, PID |-> pid, ContainerID |-> "", ContainerName |-> "",
   ContainerImage |-> "", PodName |-> "", PodNamespace |-> "", SystemdUnit |-> ""]

\* ContainerInfo
Ctr(id, name, image, pid, pod, ns) ==
  [ID |-> id, Name |-> name, Image |-> image, Pid |-> pid, PodName |-> pod,
   PodNamespace |-> ns]

\* SystemdUnitInfo
Unit(name, mainpid) == [Name |-> name, MainPID |-> mainpid]

\* KubernetesPodInfo
Pod(name) == [Name |-> name]

\* CollectionResult; a nil slice and an empty slice merge alike and are both <<>>
Result(procs, ports, sys, units, ctrs, pods) ==
  [nil |-> FALSE, Processes |-> procs, Ports |-> ports, System |-> sys,
   SystemdUnits |-> units, Containers |-> ctrs, Pods |-> pods]

\* a nil *CollectionResult
NilResult ==
  [nil |-> TRUE, Processes |-> <<>>, Ports |-> <<>>, System |-> NoSystem,
   SystemdUnits |-> <<>>, Containers |-> <<>>, Pods |-> <<>>]

\* the AggregatedData that collect allocates: empty slices, System nil
NewData ==
  [nilSlices |-> FALSE, Processes |-> <<>>, Ports |-> <<>>, System |-> NoSystem,
   SystemdUnits |-> <<>>, Containers |-> <<>>, Pods |-> <<>>]

\* the AggregatedData that NewManager allocates, &AggregatedData{}: nil slices
ZeroData ==
  [nilSlices |-> TRUE, Processes |-> <<>>, Ports |-> <<>>, System |-> NoSystem,
   SystemdUnits |-> <<>>, Containers |-> <<>>, Pods |-> <<>>]

\* the collectors a Manager may be constructed with
Collectors == {"host", "docker", "systemd"}

\* what one Collect call of a collector may return (with or without an error)
Outputs(c) ==
  CASE c = "host" ->
         { Result(<<Proc(100, "", ""), Proc(200, "", ""),
                    Proc(300, "abcdef123456", "cron.service"), Proc(400, "", "")>>,
                  <<PortE(80, 100), PortE(22, 200), PortE(53, 0), PortE(443, 400)>>,
                  "hostA", <<>>, <<>>, <<>>) }
    [] c = "docker" ->
         { Result(<<>>, <<>>, "hostB", <<>>,
                  <<Ctr("c1", "web", "nginx:1", 100, "pod-a", "default"),
                    Ctr("c2", "old", "busybox", 0, "pod-z", "kube-system"),
                    Ctr("c4", "db", "pg:15", 400, "", "")>>,
                  <<Pod("pod-a")>>) }
    [] c = "systemd" ->
         { Result(<<>>, <<>>, NoSystem,
                  <<Unit("sshd.service", 200), Unit("idle.service", 0),
                    Unit("db.service", 400)>>,
                  <<>>, <<>>),
           NilResult }

\* ------------------------------------------------------- merge and enrich

\* the aggregation loop with the append of result.Pods left out
MergeResult_NoPods(data, r) ==
  IF r.nil THEN data
  ELSE [nilSlices    |-> data.nilSlices,
        Processes    |-> data.Processes \o r.Processes,
        Ports        |-> data.Ports \o r.Ports,
        System       |-> IF r.System # NoSystem THEN r.System ELSE data.System,
        SystemdUnits |-> data.SystemdUnits \o r.SystemdUnits,
        Containers   |-> data.Containers \o r.Containers,
        Pods         |-> data.Pods]

\* one iteration of the aggregation loop of collect: a nil result is skipped, the
\* slices are appended, and a non-nil System is assigned
MergeResult(data, r) ==
  IF r.nil THEN data
  ELSE [nilSlices    |-> data.nilSlices,
        Processes    |-> data.Processes \o r.Processes,
        Ports        |-> data.Ports \o r.Ports,
        System       |-> IF r.System # NoSystem THEN r.System ELSE data.System,
        SystemdUnits |-> data.SystemdUnits \o r.SystemdUnits,
        Containers   |-> data.Containers \o r.Containers,
        Pods         |-> data.Pods \o r.Pods]

\* Pids are below 2^22 (the kernel's PID_MAX_LIMIT), where the conversions
\* int32(c.Pid) and int32(unit.MainPID) keep the value.

\* pidToContainer[pid]: the index of the container the map holds for pid (a later
\* container with the same pid overwrites an earlier one), 0 when pid is no key
PidToContainer(ctrs, pid) ==
  LET hits == {i \in 1..Len(ctrs) : ctrs[i].Pid > 0 /\ ctrs[i].Pid = pid}
  IN IF hits = {} THEN 0 ELSE CHOOSE i \in hits : \A j \in hits : j <= i

\* pidToUnit[pid]: the index of the unit whose name the map holds for pid, or 0
PidToUnit(units, pid) ==
  LET hits == {i \in 1..Len(units) : units[i].MainPID > 0 /\ units[i].MainPID = pid}
  IN IF hits = {} THEN 0 ELSE CHOOSE i \in hits : \A j \in hits : j <= i

\* the "Enrich processes" loop resetting the fields of a process that matches nothing
EnrichProcess_ResetUnmatched(p, ctrs, units) ==
  LET ci == PidToContainer(ctrs, p.PID)
      ui == PidToUnit(units, p.PID)
      p1 == IF ci # 0
            THEN [p EXCEPT !.ContainerID = ctrs[ci].ID,
                           !.ContainerName = ctrs[ci].Name,
                           !.PodName = ctrs[ci].PodName,
                           !.PodNamespace = ctrs[ci].PodNamespace]
            ELSE [p EXCEPT !.ContainerID = ""]
  IN IF ui # 0 THEN [p1 EXCEPT !.SystemdUnit = units[ui].Name] ELSE p1

\* the body of the "Enrich processes" loop
EnrichProcess(p, ctrs, units) ==
  LET ci == PidToContainer(ctrs, p.PID)
      ui == PidToUnit(units, p.PID)
      p1 == IF ci # 0
            THEN [p EXCEPT !.ContainerID = ctrs[ci].ID,
                           !.ContainerName = ctrs[ci].Name,
                           !.PodName = ctrs[ci].PodName,
                           !.PodNamespace = ctrs[ci].PodNamespace]
            ELSE p
  IN IF ui # 0 THEN [p1 EXCEPT !.SystemdUnit = units[ui].Name] ELSE p1

\* the "Enrich ports" loop with the systemd lookup left out
EnrichPort_NoUnit(port, ctrs, units) ==
  LET ci == PidToContainer(ctrs, port.PID)
  IN IF ci # 0
     THEN [port EXCEPT !.ContainerID = ctrs[ci].ID,
                       !.ContainerName = ctrs[ci].Name,
                       !.ContainerImage = ctrs[ci].Image,
                       !.PodName = ctrs[ci].PodName,
                       !.PodNamespace = ctrs[ci].PodNamespace]
     ELSE port

\* the body of the "Enrich ports" loop
EnrichPort(port, ctrs, units) ==
  LET ci == PidToContainer(ctrs, port.PID)
      ui == PidToUnit(units, port.PID)
      p1 == IF ci # 0
            THEN [port EXCEPT !.ContainerID = ctrs[ci].ID,
                              !.ContainerName = ctrs[ci].Name,
                              !.ContainerImage = ctrs[ci].Image,
                              !.PodName = ctrs[ci].PodName,
                              !.PodNamespace = ctrs[ci].PodNamespace]
            ELSE port
  IN IF ui # 0 THEN [p1 EXCEPT !.SystemdUnit = units[ui].Name] ELSE p1

\* Manager.enrichData
EnrichData(data) ==
  [data EXCEPT
     !.Processes = [i \in 1..Len(data.Processes) |->
                      EnrichProcess(data.Processes[i], data.Containers, data.SystemdUnits)],
     !.Ports = [i \in 1..Len(data.Ports) |->
                  EnrichPort(data.Ports[i], data.Containers, data.SystemdUnits)]]

\* ----------------------------------------------------- strings and numbers

\* A Go string is modelled as the sequence of its characters; an index is the Go
\* index plus one, and 0 stands for Go's -1 (not found).

Min(S) == CHOOSE x \in S : \A y \in S : x <= y
Max(S) == CHOOSE x \in S : \A y \in S : y <= x

\* strings.Index
Index(s, sub) ==
  LET hits == {i \in 1..(Len(s) - Len(sub) + 1) : SubSeq(s, i, i + Len(sub) - 1) = sub}
  IN IF hits = {} THEN 0 ELSE Min(hits)

\* strings.LastIndex
LastIndex(s, sub) ==
  LET hits == {i \in 1..(Len(s) - Len(sub) + 1) : SubSeq(s, i, i + Len(sub) - 1) = sub}
  IN IF hits = {} THEN 0 ELSE Max(hits)

\* strings.HasPrefix
HasPrefix(s, p) == Len(s) >= Len(p) /\ SubSeq(s, 1, Len(p)) = p

\* s[i:] for a Go index i
From(s, i) == SubSeq(s, i + 1, Len(s))

\* strings.TrimPrefix
TrimPrefix(s, p) == IF HasPrefix(s, p) THEN From(s, Len(p)) ELSE s

\* unicode.IsSpace, for the characters of the inputs
IsSpace(c) == c \in {" ", "\t"}

\* strings.Fields: the maximal runs of non-space characters
RECURSIVE Fields(_)
Fields(s) ==
  IF s = <<>> THEN <<>>
  ELSE IF IsSpace(Head(s)) THEN Fields(Tail(s))
  ELSE LET spaces == {i \in 1..Len(s) : IsSpace(s[i])}
           n == IF spaces = {} THEN Len(s) ELSE Min(spaces) - 1
       IN <<SubSeq(s, 1, n)>> \o Fields(From(s, n))

\* strings.Split, for a non-empty separator
RECURSIVE Split(_, _)
Split(s, sep) ==
  LET i == Index(s, sep)
  IN IF i = 0 THEN <<s>>
     ELSE <<SubSeq(s, 1, i - 1)>> \o Split(From(s, i - 1 + Len(sep)), sep)

\* strings.Trim: the leading and trailing characters of cutset removed
RECURSIVE Trim(_, _)
Trim(s, cutset) ==
  IF s = <<>> THEN s
  ELSE IF Head(s) \in cutset THEN Trim(Tail(s), cutset)
  ELSE IF s[Len(s)] \in cutset THEN Trim(SubSeq(s, 1, Len(s) - 1), cutset)
  ELSE s

\* the value of a digit in bases up to 16; 99 for any other character
DigitVal(c) ==
  CASE c = "0" -> 0 [] c = "1" -> 1 [] c = "2" -> 2 [] c = "3" -> 3 [] c = "4" -> 4
    [] c = "5" -> 5 [] c = "6" -> 6 [] c = "7" -> 7 [] c = "8" -> 8 [] c = "9" -> 9
    [] c \in {"a", "A"} -> 10 [] c \in {"b", "B"} -> 11 [] c \in {"c", "C"} -> 12
    [] c \in {"d", "D"} -> 13 [] c \in {"e", "E"} -> 14 [] c \in {"f", "F"} -> 15
    [] OTHER -> 99

\* the largest value of an int32; a 32-bit unsigned parse is taken up to this
\* value as well (the ports of the inputs are far below it)
MaxInt32 == 2147483647
\* the largest value of 8 bits
MaxUint8 == 255

\* the digit loop of strconv.ParseUint: a character that is no digit of the base is
\* a syntax error (value 0), a value above max a range error (value max)
RECURSIVE ParseDigits(_, _, _, _)
ParseDigits(s, base, max, acc) ==
  IF s = <<>> THEN [ok |-> TRUE, val |-> acc]
  ELSE LET d == DigitVal(Head(s))
       IN IF d >= base THEN [ok |-> FALSE, val |-> 0]
          ELSE IF acc > (max - d) \div base THEN [ok |-> FALSE, val |-> max]
          ELSE ParseDigits(Tail(s), base, max, acc * base + d)

\* strconv.ParseUint(s, base, bitSize) for base 10 or 16: no sign, no prefix
ParseUint(s, base, max) ==
  IF s = <<>> THEN [ok |-> FALSE, val |-> 0] ELSE ParseDigits(s, base, max, 0)

\* strconv.ParseInt(s, base, 32) for base 10 or 16: an optional sign, then digits
ParseInt(s, base) ==
  IF s = <<>> THEN [ok |-> FALSE, val |-> 0]
  ELSE LET neg == Head(s) = "-"
           body == IF Head(s) \in {"+", "-"} THEN Tail(s) ELSE s
           u == ParseUint(body, base, MaxInt32)
       IN [ok |-> u.ok, val |-> IF neg THEN 0 - u.val ELSE u.val]

\* the decimal digits of n >= 0, as fmt's %d prints them
RECURSIVE Itoa(_)
Itoa(n) ==
  LET digit == <<"0", "1", "2", "3", "4", "5", "6", "7", "8", "9">>[(n % 10) + 1]
  IN IF n < 10 THEN <<digit>> ELSE Itoa(n \div 10) \o <<digit>>

\* ---------------------------------------------------------- port collector

\* the zero PortInfo the port collector fills: the fields it sets (Cmdline,
\* Username and Exe are copied as they are, the others are parsed or formatted)
NewPortInfo ==
  [Protocol |-> "", State |-> <<>>, Address |-> <<>>, Port |-> 0, PID |-> 0,
   ProcessName |-> <<>>, Cmdline |-> "", Username |-> "", Exe |-> ""]

\* an entry of /proc is the directory of a process when it is a directory with a
\* decimal name
DirPid(e) == ParseInt(e.name, 10)
IsProcDir(e) == e.isDir /\ DirPid(e).ok

\* enrichWithProcessInfo: process.NewProcess(pid) fails when no such process
\* exists; each of Cmdline, Username, Exe is set when its read succeeds (a failed
\* read is a value "" in the process table)
enrichWithProcessInfo(info, pid, procs) ==
  LET hits == {i \in 1..Len(procs) : IsProcDir(procs[i]) /\ DirPid(procs[i]).val = pid}
  IN IF hits = {} THEN info
     ELSE LET p == procs[Min(hits)]
          IN [info EXCEPT !.Cmdline = p.cmdline, !.Username = p.username, !.Exe = p.exe]

\* parseAddressPort: [addr]:port by the last "]:", otherwise addr:port by the last
\* ":", and * for 0.0.0.0
parseAddressPort(s) ==
  IF HasPrefix(s, <<"[">>)
  THEN LET idx == LastIndex(s, <<"]", ":">>)
           port == ParseUint(From(s, idx + 1), 10, MaxInt32)
       IN IF idx = 0 \/ ~port.ok THEN [ok |-> FALSE, addr |-> <<>>, port |-> 0]
          ELSE [ok |-> TRUE, addr |-> SubSeq(s, 2, idx - 1), port |-> port.val]
  ELSE LET lastColon == LastIndex(s, <<":">>)
           addr == SubSeq(s, 1, lastColon - 1)
           port == ParseUint(From(s, lastColon), 10, MaxInt32)
       IN IF lastColon = 0 \/ ~port.ok THEN [ok |-> FALSE, addr |-> <<>>, port |-> 0]
          ELSE [ok |-> TRUE,
                addr |-> IF addr = <<"*">> THEN <<"0", ".", "0", ".", "0", ".", "0">> ELSE addr,
                port |-> port.val]

\* the loop of parseProcessInfo over parts[1:]: the first part with the prefix
\* pid= whose number parses
RECURSIVE FirstPid(_)
FirstPid(parts) ==
  IF parts = <<>> THEN [ok |-> FALSE, val |-> 0]
  ELSE LET pid == ParseInt(TrimPrefix(Head(parts), <<"p", "i", "d", "=">>), 10)
       IN IF HasPrefix(Head(parts), <<"p", "i", "d", "=">>) /\ pid.ok THEN pid
          ELSE FirstPid(Tail(parts))

\* parseProcessInfo: the entry between the first "((" and the next ")", split at
\* its commas; the name is the first part without its quotes
parseProcessInfo(s) ==
  LET start == Index(s, <<"(", "(">>)
      end == Index(From(s, start - 1), <<")">>)
      entry == SubSeq(s, start + 2, start + end - 2)
      parts == Split(entry, <<",">>)
      pid == FirstPid(Tail(parts))
  IN IF start = 0 \/ end = 0 \/ Len(parts) < 2 THEN [pid |-> 0, name |-> <<>>]
     ELSE [pid |-> pid.val, name |-> Trim(parts[1], {"\""})]

\* parseSSLine: ok is FALSE when it returns an error (no entry)
parseSSLine(line, procs) ==
  LET fields == Fields(line)
      proto == IF fields[1] \in {<<"t", "c", "p">>, <<"t", "c", "p", "6">>} THEN "tcp"
               ELSE IF fields[1] \in {<<"u", "d", "p">>, <<"u", "d", "p", "6">>} THEN "udp" ELSE ""
      ap == parseAddressPort(fields[5])
      info == [NewPortInfo EXCEPT !.Protocol = proto, !.State = fields[2],
                                  !.Address = ap.addr, !.Port = ap.port]
      pi == parseProcessInfo(fields[7])
      withProc == [info EXCEPT !.PID = pi.pid, !.ProcessName = pi.name]
  IN IF Len(fields) < 5 THEN [ok |-> FALSE, info |-> NewPortInfo]
     ELSE IF proto = "" THEN [ok |-> FALSE, info |-> NewPortInfo]
     ELSE IF ~ap.ok THEN [ok |-> FALSE, info |-> NewPortInfo]
     ELSE IF Len(fields) > 6 /\ HasPrefix(fields[7], <<"u", "s", "e", "r", "s", ":">>)
          THEN [ok |-> TRUE,
                info |-> IF pi.pid > 0 THEN enrichWithProcessInfo(withProc, pi.pid, procs)
                         ELSE withProc]
          ELSE [ok |-> TRUE, info |-> info]

\* parseHexAddress with the four bytes kept in the order of the file
parseHexAddress_FileOrder(s) ==
  LET parts == Split(s, <<":">>)
      port == ParseUint(parts[2], 16, MaxInt32)
      addrHex == parts[1]
      pair(i) == ParseUint(SubSeq(addrHex, 2 * i - 1, 2 * i), 16, MaxUint8).val
  IN IF Len(parts) # 2 THEN [ok |-> FALSE, addr |-> <<>>, port |-> 0]
     ELSE IF ~port.ok THEN [ok |-> FALSE, addr |-> <<>>, port |-> 0]
     ELSE IF Len(addrHex) = 8
          THEN [ok |-> TRUE,
                addr |-> Itoa(pair(1)) \o <<".">> \o Itoa(pair(2)) \o <<".">>
                           \o Itoa(pair(3)) \o <<".">> \o Itoa(pair(4)),
                port |-> port.val]
     ELSE IF Len(addrHex) = 32 THEN [ok |-> TRUE, addr |-> <<":", ":">>, port |-> port.val]
     ELSE [ok |-> FALSE, addr |-> <<>>, port |-> 0]

\* parseHexAddress: HEXADDR:HEXPORT; octets[3-i] is the i-th pair of hex digits
\* (an unparsable pair leaves 0), printed as octets[0].octets[1].octets[2].octets[3]
parseHexAddress(s) ==
  LET parts == Split(s, <<":">>)
      port == ParseUint(parts[2], 16, MaxInt32)
      addrHex == parts[1]
      pair(i) == ParseUint(SubSeq(addrHex, 2 * i - 1, 2 * i), 16, MaxUint8).val
  IN IF Len(parts) # 2 THEN [ok |-> FALSE, addr |-> <<>>, port |-> 0]
     ELSE IF ~port.ok THEN [ok |-> FALSE, addr |-> <<>>, port |-> 0]
     ELSE IF Len(addrHex) = 8
          THEN [ok |-> TRUE,
                addr |-> Itoa(pair(4)) \o <<".">> \o Itoa(pair(3)) \o <<".">>
                           \o Itoa(pair(2)) \o <<".">> \o Itoa(pair(1)),
                port |-> port.val]
     ELSE IF Len(addrHex) = 32 THEN [ok |-> TRUE, addr |-> <<":", ":">>, port |-> port.val]
     ELSE [ok |-> FALSE, addr |-> <<>>, port |-> 0]

\* tcpStateToString
tcpStateToString(state) ==
  CASE state = 1 -> <<"E", "S", "T", "A", "B", "L", "I", "S", "H", "E", "D">>
    [] state = 2 -> <<"S", "Y", "N", "_", "S", "E", "N", "T">>
    [] state = 3 -> <<"S", "Y", "N", "_", "R", "E", "C", "V">>
    [] state = 4 -> <<"F", "I", "N", "_", "W", "A", "I", "T", "1">>
    [] state = 5 -> <<"F", "I", "N", "_", "W", "A", "I", "T", "2">>
    [] state = 6 -> <<"T", "I", "M", "E", "_", "W", "A", "I", "T">>
    [] state = 7 -> <<"C", "L", "O", "S", "E">>
    [] state = 8 -> <<"C", "L", "O", "S", "E", "_", "W", "A", "I", "T">>
    [] state = 9 -> <<"L", "A", "S", "T", "_", "A", "C", "K">>
    [] state = 10 -> <<"L", "I", "S", "T", "E", "N">>
    [] state = 11 -> <<"C", "L", "O", "S", "I", "N", "G">>
    [] OTHER -> <<"U", "N", "K", "N", "O", "W", "N">>

\* the state value of LISTEN in /proc/net/tcp
TcpListen == 10

\* parseProcNetLine up to the call of findPIDByInode: skip is TRUE when the line
\* gives no entry (an error, or a tcp socket that is not listening)
parseProcNetHead(line, protocol) ==
  LET fields == Fields(line)
      state == ParseInt(fields[4], 16).val
      ap == parseHexAddress(fields[2])
  IN IF Len(fields) < 10 THEN [skip |-> TRUE, info |-> NewPortInfo, inode |-> <<>>]
     ELSE IF protocol = "tcp" /\ state # TcpListen
          THEN [skip |-> TRUE, info |-> NewPortInfo, inode |-> <<>>]
     ELSE IF ~ap.ok THEN [skip |-> TRUE, info |-> NewPortInfo, inode |-> <<>>]
     ELSE [skip |-> FALSE,
           info |-> [NewPortInfo EXCEPT !.Protocol = protocol, !.Address = ap.addr,
                                        !.Port = ap.port,
                                        !.State = tcpStateToString(state)],
           inode |-> fields[10]]

\* fmt.Sprintf("socket:[%s]", inode)
socketPattern(inode) == <<"s", "o", "c", "k", "e", "t", ":", "[">> \o inode \o <<"]">>

\* one iteration of the outer loop of findPIDByInode: entry e of /proc is the
\* directory of a process whose fd directory can be read and holds a link to the
\* socket
DirOwns(e, inode) ==
  /\ IsProcDir(e)
  /\ e.fdsOk
  /\ \E i \in 1..Len(e.links) : e.links[i] = socketPattern(inode)

\* findPIDByInode: the first such entry in the order os.ReadDir lists them, or 0
findPIDByInode(inode, procs) ==
  LET hits == {i \in 1..Len(procs) : DirOwns(procs[i], inode)}
  IN IF hits = {} THEN 0 ELSE DirPid(procs[Min(hits)]).val

\* the tail of parseProcNetLine naming the process after its entry of /proc
parseProcNetTail_Named(info, pid, procs) ==
  LET withPid == [info EXCEPT !.PID = pid, !.ProcessName = Itoa(pid)]
  IN IF pid > 0 THEN enrichWithProcessInfo(withPid, pid, procs) ELSE withPid

\* the tail of parseProcNetLine: the pid, and the process info when pid > 0
parseProcNetTail(info, pid, procs) ==
  LET withPid == [info EXCEPT !.PID = pid]
  IN IF pid > 0 THEN enrichWithProcessInfo(withPid, pid, procs) ELSE withPid

\* the four files collectFromProcNet reads, in its order, and their protocol
ProcNetFiles == <<"tcp", "tcp6", "udp", "udp6">>
ProcNetProtocol == <<"tcp", "tcp", "udp", "udp">>

\* ------------------------------------------- the host the port collector sees

\* lines of the output of ss -tulnp, by name
SsLineText(id) ==
  CASE id = "hdr" ->
         \* Netid State Recv-Q Send-Q Local Address:Port Peer Address:Port Process
         <<"N", "e", "t", "i", "d", " ", "S", "t", "a", "t", "e", " ", "R", "e", "c", "v", "-",
             "Q", " ", "S", "e", "n", "d", "-", "Q", " ", "L", "o", "c", "a", "l", " ", "A",
             "d", "d", "r", "e", "s", "s", ":", "P", "o", "r", "t", " ", "P", "e", "e", "r",
             " ", "A", "d", "d", "r", "e", "s", "s", ":", "P", "o", "r", "t", " ", "P", "r",
             "o", "c", "e", "s", "s">>
    [] id = "nginx" ->
         \* tcp   LISTEN 0   128   0.0.0.0:8080   0.0.0.0:*   users:(("nginx",pid=1234,fd=6))
         <<"t", "c", "p", " ", " ", " ", "L", "I", "S", "T", "E", "N", " ", "0", " ", " ", " ",
             "1", "2", "8", " ", " ", " ", "0", ".", "0", ".", "0", ".", "0", ":", "8", "0",
             "8", "0", " ", " ", " ", "0", ".", "0", ".", "0", ".", "0", ":", "*", " ", " ",
             " ", "u", "s", "e", "r", "s", ":", "(", "(", "\"", "n", "g", "i", "n", "x", "\"",
             ",", "p", "i", "d", "=", "1", "2", "3", "4", ",", "f", "d", "=", "6", ")", ")">>
    [] id = "sshd6" ->
         \* tcp6 LISTEN 0 128 [::]:22 [::]:* users:(("sshd",pid=200,fd=3),("sshd",pid=201,fd=4))
         <<"t", "c", "p", "6", " ", "L", "I", "S", "T", "E", "N", " ", "0", " ", "1", "2", "8",
             " ", "[", ":", ":", "]", ":", "2", "2", " ", "[", ":", ":", "]", ":", "*", " ",
             "u", "s", "e", "r", "s", ":", "(", "(", "\"", "s", "s", "h", "d", "\"", ",", "p",
             "i", "d", "=", "2", "0", "0", ",", "f", "d", "=", "3", ")", ",", "(", "\"", "s",
             "s", "h", "d", "\"", ",", "p", "i", "d", "=", "2", "0", "1", ",", "f", "d", "=",
             "4", ")", ")">>
    [] id = "dns" ->
         \* udp UNCONN 0 0 *:53 *:*
         <<"u", "d", "p", " ", "U", "N", "C", "O", "N", "N", " ", "0", " ", "0", " ", "*", ":",
             "5", "3", " ", "*", ":", "*">>
    [] id = "ntp6" ->
         \* udp6 UNCONN 0 0 [::1]:323 [::]:* users:(("chronyd",pid=77,fd=6))
         <<"u", "d", "p", "6", " ", "U", "N", "C", "O", "N", "N", " ", "0", " ", "0", " ", "[",
             ":", ":", "1", "]", ":", "3", "2", "3", " ", "[", ":", ":", "]", ":", "*", " ",
             "u", "s", "e", "r", "s", ":", "(", "(", "\"", "c", "h", "r", "o", "n", "y", "d",
             "\"", ",", "p", "i", "d", "=", "7", "7", ",", "f", "d", "=", "6", ")", ")">>
    [] id = "raw" ->
         \* raw UNCONN 0 0 *:58 *:*
         <<"r", "a", "w", " ", "U", "N", "C", "O", "N", "N", " ", "0", " ", "0", " ", "*", ":",
             "5", "8", " ", "*", ":", "*">>
    [] id = "plex" ->
         \* tcp LISTEN 0 128 0.0.0.0:32400 0.0.0.0:* users:(("Plex Media",pid=77,fd=5))
         <<"t", "c", "p", " ", "L", "I", "S", "T", "E", "N", " ", "0", " ", "1", "2", "8", " ",
             "0", ".", "0", ".", "0", ".", "0", ":", "3", "2", "4", "0", "0", " ", "0", ".",
             "0", ".", "0", ".", "0", ":", "*", " ", "u", "s", "e", "r", "s", ":", "(", "(",
             "\"", "P", "l", "e", "x", " ", "M", "e", "d", "i", "a", "\"", ",", "p", "i", "d",
             "=", "7", "7", ",", "f", "d", "=", "5", ")", ")">>
    [] id = "short" ->
         \* tcp LISTEN
         <<"t", "c", "p", " ", "L", "I", "S", "T", "E", "N">>

\* the data lines an ss output is drawn from
SsDataLines == {"nginx", "sshd6", "dns", "ntp6", "raw", "plex", "short"}

\* the two hex digits of a byte of an address in /proc/net, by name
ByteText(b) ==
  CASE b = "00" -> <<"0", "0">>
    [] b = "01" -> <<"0", "1">>
    [] b = "7F" -> <<"7", "F">>
    [] b = "FF" -> <<"F", "F">>
    [] b = "0a" -> <<"0", "a">>
    [] b = "A8" -> <<"A", "8">>
    [] b = "C0" -> <<"C", "0">>
    [] b = "10" -> <<"1", "0">>
    [] b = "AC" -> <<"A", "C">>

\* the hex digits of a port in /proc/net, by name
PortText(q) ==
  CASE q = "1F90" -> <<"1", "F", "9", "0">>
    [] q = "0050" -> <<"0", "0", "5", "0">>
    [] q = "0016" -> <<"0", "0", "1", "6">>
    [] q = "0035" -> <<"0", "0", "3", "5">>
    [] q = "FFFF" -> <<"F", "F", "F", "F">>
    [] q = "0000" -> <<"0", "0", "0", "0">>
    [] q = "1f90" -> <<"1", "f", "9", "0">>

\* the 32 hex digits of an IPv6 address in /proc/net, by name
Addr6Text(a) ==
  CASE a = "v6any" ->
         <<"0", "0", "0", "0", "0", "0", "0", "0", "0", "0", "0", "0", "0", "0", "0", "0", "0",
             "0", "0", "0", "0", "0", "0", "0", "0", "0", "0", "0", "0", "0", "0", "0">>
    [] a = "v6lo" ->
         <<"0", "0", "0", "0", "0", "0", "0", "0", "0", "0", "0", "0", "0", "0", "0", "0", "0",
             "0", "0", "0", "0", "0", "0", "0", "0", "1", "0", "0", "0", "0", "0", "0">>

\* a line of a /proc/net file: the header, a short (truncated) line, or a socket
\* with its local address (four bytes in the order of the file, or an IPv6
\* address), port, state and inode
NetLine(kind, a, port, st, inode) ==
  [kind |-> kind, a |-> a, port |-> port, st |-> st, inode |-> inode]
NetHeader == NetLine("hdr", <<>>, "0000", <<>>, <<>>)
NetShort == NetLine("short", <<>>, "0000", <<>>, <<>>)

AddrText(a) ==
  IF Len(a) = 1 THEN Addr6Text(a[1])
  ELSE ByteText(a[1]) \o ByteText(a[2]) \o ByteText(a[3]) \o ByteText(a[4])

\* the text of such a line
NetLineText(l) ==
  CASE l.kind = "hdr" -> <<" ", " ", "s", "l", " ", " ", "l", "o", "c", "a", "l", "_", "a", "d",
      "d", "r", "e", "s", "s", " ", "r", "e", "m", "_", "a", "d", "d", "r", "e", "s", "s", " ",
      " ", " ", "s", "t", " ", "t", "x", "_", "q", "u", "e", "u", "e", " ", "r", "x", "_", "q",
      "u", "e", "u", "e", " ", "t", "r", " ", "t", "m", "-", ">", "w", "h", "e", "n", " ", "r",
      "e", "t", "r", "n", "s", "m", "t", " ", " ", " ", "u", "i", "d", " ", " ", "t", "i", "m",
      "e", "o", "u", "t", " ", "i", "n", "o", "d", "e">>
    [] l.kind = "short" -> <<" ", " ", " ", "9", ":", " ", "0", "0", "0", "0", "0", "0", "0",
        "0", ":", "0", "0", "0", "0">>
    [] l.kind = "sock" ->
         <<" ", " ", " ", "0", ":",
             " ">> \o AddrText(l.a) \o <<":">> \o PortText(l.port) \o <<" ", "0", "0", "0", "0",
             "0", "0", "0", "0", ":", "0", "0", "0", "0", " ">> \o l.st
           \o <<" ", "0", "0", "0", "0", "0", "0", "0", "0", ":", "0", "0", "0", "0", "0", "0",
               "0", "0", " ", "0", "0", ":", "0", "0", "0", "0", "0", "0", "0", "0", " ", "0",
               "0", "0", "0", "0", "0", "0", "0", " ", " ", " ", " ", " ", "0", " ", " ", " ",
               " ", " ", " ", " ", " ", "0", " ">> \o l.inode \o <<" ", "1", " ", "0", "0", "0",
               "0", "0", "0", "0", "0", "0", "0", "0", "0", "0", "0", "0", "0", " ", "1", "0",
               "0", " ", "0", " ", "0", " ", "1", "0", " ", "0">>

\* a /proc/net file that cannot be opened, and one with lines
NoFile == [ok |-> FALSE, lines |-> <<>>]
File(lines) == [ok |-> TRUE, lines |-> lines]

\* the listing of /proc in the order of os.ReadDir (by name): per entry whether it
\* is a directory, whether its fd directory can be read, the targets of its fd
\* links, and what gopsutil reads of the process
ProcDirs ==
  <<[name |-> <<"1">>, isDir |-> TRUE, fdsOk |-> FALSE, links |-> <<>>,
     cmdline |-> "/sbin/init", username |-> "root", exe |-> ""],
    [name |-> <<"1", "2", "3", "4">>, isDir |-> TRUE, fdsOk |-> TRUE,
     links |-> <<<<"/", "d", "e", "v", "/", "n", "u", "l", "l">>, <<"s", "o", "c", "k", "e",
         "t", ":", "[", "5", "0", "0", "1", "]">>>>,
     cmdline |-> "nginx: master", username |-> "www", exe |-> "/usr/sbin/nginx"],
    [name |-> <<"2", "0", "0">>, isDir |-> TRUE, fdsOk |-> TRUE,
     links |-> <<<<"s", "o", "c", "k", "e", "t", ":", "[", "5", "0", "0", "3", "]">>, <<"s",
         "o", "c", "k", "e", "t", ":", "[", "5", "0", "0", "1", "]">>>>,
     cmdline |-> "sshd", username |-> "root", exe |-> "/usr/sbin/sshd"],
    [name |-> <<"7", "7">>, isDir |-> TRUE, fdsOk |-> TRUE, links |-> <<<<"p", "i", "p", "e",
        ":", "[", "9", "]">>>>,
     cmdline |-> "plex", username |-> "plex", exe |-> "/opt/plex"],
    [name |-> <<"c", "p", "u">>, isDir |-> FALSE, fdsOk |-> FALSE, links |-> <<>>,
     cmdline |-> "", username |-> "", exe |-> ""],
    [name |-> <<"s", "y", "s">>, isDir |-> TRUE, fdsOk |-> FALSE, links |-> <<>>,
     cmdline |-> "", username |-> "", exe |-> ""]>>

\* /proc as the collector finds it: the listing, or nothing when /proc cannot be
\* read (os.ReadDir and process.NewProcess both fail)
ProcTable(id) == IF id = "host" THEN ProcDirs ELSE <<>>

\* the local addresses and ports the tcp table is drawn from
HexAddrs ==
  {<<"01", "00", "00", "7F">>, <<"00", "00", "00", "00">>, <<"0a", "01", "A8", "C0">>,
   <<"FF", "FF", "FF", "FF">>, <<"10", "00", "10", "AC">>}
HexPorts == {"1F90", "0050", "FFFF", "1f90"}

\* /proc/net/tcp: a header, a listening socket of nginx, an established connection
TcpFiles ==
  {NoFile} \cup
  {File(<<NetHeader, NetLine("sock", a, q, <<"0", "A">>, <<"5", "0", "0", "1">>),
          NetLine("sock", a, "0050", <<"0", "1">>, <<"5", "0", "0", "2">>)>>) :
     a \in HexAddrs, q \in HexPorts}
\* /proc/net/tcp6: a listening socket of sshd
Tcp6Files ==
  {NoFile} \cup
  {File(<<NetHeader, NetLine("sock", a, "0016", <<"0", "A">>, <<"5", "0", "0", "3">>)>>) :
     a \in {<<"v6any">>, <<"v6lo">>}}
\* /proc/net/udp: a socket nobody's fd points to, and a truncated line
UdpFiles ==
  {NoFile,
   File(<<NetHeader,
          NetLine("sock", <<"00", "00", "00", "00">>, "0035", <<"0", "7">>,
                  <<"5", "0", "0", "4">>),
          NetShort>>)}
\* /proc/net/udp6: no socket
Udp6Files == {NoFile, File(<<NetHeader>>)}

\* a host's socket tables
NetTables == {<<t, t6, u, u6>> : t \in TcpFiles, t6 \in Tcp6Files, u \in UdpFiles, u6 \in Udp6Files}
DefaultNet ==
  <<File(<<NetHeader, NetLine("sock", <<"01", "00", "00", "7F">>, "1F90", <<"0", "A">>,
                              <<"5", "0", "0", "1">>)>>),
    NoFile, NoFile, File(<<NetHeader>>)>>

\* what ss does: it cannot be run, or it prints a header and up to two lines
SsFailed == [ok |-> FALSE, out |-> <<>>]
SsPrints(out) == [ok |-> TRUE, out |-> out]
SsOutputs ==
  {SsPrints(<<"hdr">>)} \cup {SsPrints(<<"hdr", a>>) : a \in SsDataLines}
    \cup {SsPrints(<<"hdr", a, b>>) : a \in SsDataLines, b \in SsDataLines}

PortEnv(ss, net, procs) == [ss |-> ss, net |-> net, procs |-> procs]

\* the hosts explored: every ss output over one set of tables, and every set of
\* tables under a failing ss and under an ss that prints no socket
PortEnvs ==
  {PortEnv(ss, DefaultNet, "host") : ss \in SsOutputs}
    \cup {PortEnv(ss, net, procs) :
            ss \in {SsFailed, SsPrints(<<"hdr">>)}, net \in NetTables,
            procs \in {"host", "unreadable"}}

NoEnv == PortEnv(SsFailed, <<>>, "unreadable")
NoRet == [ports |-> <<>>, err |-> FALSE]


\* ------------------------------------------------------- process collector

\* what /proc and gopsutil show of a process while it exists; cid and unit are what
\* getContainerID and getSystemdUnit extract from /proc/<pid>/cgroup
HostProcess(pid) ==
  CASE pid = 1 -> [name |-> "systemd", ppid |-> 0, cmdline |-> "/sbin/init", cid |-> "",
                   unit |-> "init.scope"]
    [] pid = 100 -> [name |-> "nginx", ppid |-> 1, cmdline |-> "nginx: master",
                     cid |-> "abcdef123456", unit |-> "docker.service"]
    [] pid = 200 -> [name |-> "sshd", ppid |-> 1, cmdline |-> "sshd", cid |-> "",
                     unit |-> "sshd.service"]
    [] OTHER -> [name |-> "sleep", ppid |-> 200, cmdline |-> "sleep 1", cid |-> "",
                 unit |-> ""]

\* info := &ProcessInfo{PID: p.Pid}
NewProcessInfo(pid) ==
  [PID |-> pid, Name |-> "", PPID |-> 0, Cmdline |-> "", ContainerID |-> "",
   SystemdUnit |-> ""]

\* collectProcess: every lookup sets its field only if err == nil, the reads of
\* the cgroup file give "" when they fail, and the function ends with
\* return info, nil
collectProcess(pid, exists) ==
  IF exists
  THEN [err |-> FALSE,
        info |-> [NewProcessInfo(pid) EXCEPT !.Name = HostProcess(pid).name,
                                             !.PPID = HostProcess(pid).ppid,
                                             !.Cmdline = HostProcess(pid).cmdline,
                                             !.ContainerID = HostProcess(pid).cid,
                                             !.SystemdUnit = HostProcess(pid).unit]]
  ELSE [err |-> FALSE, info |-> NewProcessInfo(pid)]

NoProcRet == [nil |-> TRUE, Processes |-> <<>>, err |-> FALSE]

\* ------------------------------------------------------------------ state

VARIABLES
  collectors,   \* Manager.collectors, fixed by NewManager
  ctxDone,      \* the context passed to Start is cancelled
  panicMsg,     \* "" while the process runs; the panic that terminated it
  mpc,          \* where the goroutine running Start is
  tickNo,       \* calls of collect so far; the pointer of the current data
  heap,         \* pointer -> AggregatedData
  wstate,       \* this tick's worker goroutine of each collector
  ret,          \* the *CollectionResult each worker's Collect returned
  wg,           \* the sync.WaitGroup counter of this tick
  results,      \* the results channel: the workers whose result is queued
  errors,       \* the errors channel
  closed,       \* results and errors are closed
  merged,       \* the workers whose result the aggregation loop has taken, in order
  latestData,   \* Manager.latestData
  rlocks,       \* read locks held on Manager.mu by notifySubscribers
  subscribers,  \* Manager.subscribers
  nlist,        \* the slice notifySubscribers ranges over
  nidx,         \* its position in that slice
  chanBuf,      \* the buffer of each subscriber channel
  chanClosed,   \* close(ch) has run
  nextChan,     \* the next channel Subscribe makes
  hpc,          \* where the handleWebSocket call owning each channel is
  lastRecv,     \* the pointer each handler received last (0: none yet)
  dropPending,  \* the tick of an update dropped for the channel since its last receive
  got,          \* the pointer the last GetLatestData of a REST handler returned
  penv,         \* what the host shows the port collector: ss, /proc/net, /proc
  pctxDone,     \* the context passed to PortCollector.Collect is cancelled
  ppc,          \* where the Collect call of the port collector is
  pcalls,       \* the strategies that call has run, in order
  pfile,        \* Strategy B: the /proc/net file being read
  pline,        \* the line of the ss output, or of that file, being parsed
  pdir,         \* findPIDByInode: the entry of /proc being looked at
  pports,       \* the ports slice of the strategy that is running
  pret,         \* what Collect returned
  qalive,       \* the pids of the host's processes that have not exited
  qpc,          \* where the Collect call of the process collector is
  qprocs,       \* its slice procs: the pids process.ProcessesWithContext listed
  qidx,         \* the position of its loop in procs
  qfail,        \* the pids whose detail lookups returned errors in this call
  qout,         \* result.Processes
  qret,         \* what that Collect returned
  ctorErr,      \* the collectors whose constructor returned an error in initCollectors
  ucalled       \* the channels passed to Unsubscribe by callers other than a handler

vars == <<collectors, ctxDone, panicMsg, mpc, tickNo, heap, wstate, ret, wg, results,
          errors, closed, merged, latestData, rlocks, subscribers, nlist, nidx,
          chanBuf, chanClosed, nextChan, hpc, lastRecv, dropPending, got, penv,
          pctxDone, ppc, pcalls, pfile, pline, pdir, pports, pret, qalive, qpc,
          qprocs, qidx, qfail, qout, qret, ctorErr, ucalled>>

readVars == <<got>>
portVars == <<penv, pctxDone, ppc, pcalls, pfile, pline, pdir, pports, pret>>
procVars == <<qalive, qpc, qprocs, qidx, qfail, qout, qret>>
mainVars == <<ctorErr>>
callVars == <<ucalled>>

collectVars == <<tickNo, heap, wstate, ret, wg, results, errors, closed, merged>>
subVars == <<subscribers, chanBuf, chanClosed, nextChan, hpc, lastRecv, dropPending>>

\* the channels of a run: those Subscribe makes, one more subscriber for the runs
\* about Unsubscribe, and a channel made by another caller
Chans == 1..(MaxSubs + 2)

\* the order initCollectors appends in: the collectors that are always enabled
\* (process, port, system: "host"), then systemd, then docker; the branch of the
\* kubernetes collector has the shape of the docker branch
RegOrder == <<"host", "systemd", "docker">>

\* the collectors that cfg.Collectors can switch on, whose constructor can fail
Optional == {"systemd", "docker"}

\* initCollectors appending a collector whose constructor returned an error
initCollectors_AppendOnError(enabled, failing) ==
  SelectSeq(RegOrder, LAMBDA c : c \notin Optional \/ c \in enabled)

\* initCollectors, for the collectors enabled in cfg and those of them whose
\* constructor fails: if err != nil { logger.Warn(...) } else { append }
initCollectors(enabled, failing) ==
  SelectSeq(RegOrder, LAMBDA c : c \notin Optional \/ (c \in enabled /\ c \notin failing))

Registered == {collectors[i] : i \in 1..Len(collectors)}

\* NewManager, for a slice of collectors
NewManager(cs) ==
  /\ collectors = cs
  /\ ctxDone = FALSE
  /\ panicMsg = ""
  /\ mpc = "new"
  /\ tickNo = 0
  /\ heap = [p \in {0} |-> ZeroData]
  /\ wstate = [c \in Collectors |-> "idle"]
  /\ ret = [c \in Collectors |-> NilResult]
  /\ wg = 0
  /\ results = <<>>
  /\ errors = <<>>
  /\ closed = FALSE
  /\ merged = <<>>
  /\ latestData = 0
  /\ rlocks = 0
  /\ subscribers = <<>>
  /\ nlist = <<>>
  /\ nidx = 1
  /\ chanBuf = [ch \in Chans |-> <<>>]
  /\ chanClosed = [ch \in Chans |-> FALSE]
  /\ nextChan = 1
  /\ hpc = [ch \in Chans |-> "none"]
  /\ lastRecv = [ch \in Chans |-> 0]
  /\ dropPending = [ch \in Chans |-> 0]

\* no GetLatestData has returned yet
NoPtr == -1

\* a Manager made by a direct NewManager call, and no Unsubscribe call yet
NoMain == ctorErr = {} /\ ucalled = {}

\* no Collect call of the port collector has been made
PortIdle ==
  /\ penv = NoEnv
  /\ pctxDone = FALSE
  /\ ppc = "idle"
  /\ pcalls = <<>>
  /\ pfile = 0
  /\ pline = 0
  /\ pdir = 0
  /\ pports = <<>>
  /\ pret = NoRet

\* the processes of the host, in the order of their pids
HostPids == <<1, 100, 200, 300>>

\* no Collect call of the process collector has been made
ProcIdle ==
  /\ qalive = {HostPids[i] : i \in 1..Len(HostPids)}
  /\ qpc = "idle"
  /\ qprocs = <<>>
  /\ qidx = 0
  /\ qfail = {}
  /\ qout = <<>>
  /\ qret = NoProcRet

Init ==
  /\ \E S \in SUBSET Collectors : NewManager(SelectSeq(RegOrder, LAMBDA c : c \in S))
  /\ got = NoPtr
  /\ PortIdle
  /\ ProcIdle
  /\ NoMain

\* the process has not been terminated by a panic
Alive == panicMsg = ""

\* -------------------------------------------------------- Manager.collect

\* collect reusing the AggregatedData of the previous call instead of allocating one
BeginCollect_Reuse ==
  /\ tickNo' = tickNo
  /\ heap' = [heap EXCEPT ![tickNo] = NewData]
  /\ wstate' = [c \in Collectors |-> IF c \in Registered THEN "running" ELSE "idle"]
  /\ ret' = [c \in Collectors |-> NilResult]
  /\ wg' = Len(collectors)
  /\ results' = <<>>
  /\ errors' = <<>>
  /\ closed' = FALSE
  /\ merged' = <<>>
  /\ mpc' = "merge"

\* the head of collect: allocate data, make the channels, start one worker per
\* collector (wg.Add(1); go func ...) and the goroutine that waits for them
BeginCollect ==
  /\ tickNo' = tickNo + 1
  /\ heap' = [p \in 0..(tickNo + 1) |-> IF p <= tickNo THEN heap[p] ELSE NewData]
  /\ wstate' = [c \in Collectors |-> IF c \in Registered THEN "running" ELSE "idle"]
  /\ ret' = [c \in Collectors |-> NilResult]
  /\ wg' = Len(collectors)
  /\ results' = <<>>
  /\ errors' = <<>>
  /\ closed' = FALSE
  /\ merged' = <<>>
  /\ mpc' = "merge"

\* Start going to its select without the initial m.collect(ctx)
Start_WaitForTicker ==
  /\ Alive
  /\ mpc = "new"
  /\ mpc' = "select"
  /\ UNCHANGED <<readVars, portVars, procVars, mainVars, callVars, collectors, ctxDone,
                 panicMsg, collectVars, latestData, rlocks, nlist, nidx, subVars>>

\* Manager.Start up to the initial collection
Start ==
  /\ Alive
  /\ mpc = "new"
  /\ BeginCollect
  /\ UNCHANGED <<readVars, portVars, procVars, mainVars, callVars, collectors, ctxDone, panicMsg, latestData, rlocks, nlist,
      nidx, subVars>>

\* the select of Start takes case <-ticker.C (also when ctx.Done() is ready too)
TickerFire(limit) ==
  /\ Alive
  /\ mpc = "select"
  /\ tickNo < limit
  /\ BeginCollect
  /\ UNCHANGED <<readVars, portVars, procVars, mainVars, callVars, collectors, ctxDone, panicMsg, latestData, rlocks, nlist,
      nidx, subVars>>

\* case <-ctx.Done() without the return: the loop goes back to its select
SelectDone_Continue ==
  /\ Alive
  /\ mpc = "select"
  /\ ctxDone
  /\ UNCHANGED vars

\* the select of Start takes case <-ctx.Done()
SelectDone ==
  /\ Alive
  /\ mpc = "select"
  /\ ctxDone
  /\ mpc' = "stopped"
  /\ UNCHANGED <<readVars, portVars, procVars, mainVars, callVars, collectors, ctxDone, panicMsg, collectVars, latestData,
      rlocks, nlist,
                 nidx, subVars>>

\* cancel() in main
Cancel ==
  /\ Alive
  /\ ~ctxDone
  /\ ctxDone' = TRUE
  /\ UNCHANGED <<readVars, portVars, procVars, mainVars, callVars, collectors, panicMsg, mpc, collectVars, latestData, rlocks,
      nlist, nidx,
                 subVars>>

\* the result a collector hands back together with an error
ErrOutput(c) == CHOOSE r \in Outputs(c) : ~r.nil

\* the worker with the return after errors <- err left out
SendsResult_Always(err) == TRUE

\* if err != nil { errors <- err; ...; return }: the worker goes on to
\* results <- result only when err == nil
SendsResult(err) == ~err

\* a worker whose Collect returns (r, err): its sends, both on channels buffered to
\* len(m.collectors), then the deferred wg.Done()
CollectReturn(c, r, err) ==
  /\ Alive
  /\ wstate[c] = "running"
  /\ ret' = [ret EXCEPT ![c] = r]
  /\ err => Len(errors) < Len(collectors)
  /\ errors' = IF err THEN Append(errors, c) ELSE errors
  /\ SendsResult(err) => Len(results) < Len(collectors)
  /\ results' = IF SendsResult(err) THEN Append(results, c) ELSE results
  /\ wstate' = [wstate EXCEPT ![c] = IF err THEN "err" ELSE "ok"]
  /\ wg' = wg - 1
  /\ UNCHANGED <<readVars, portVars, procVars, mainVars, callVars, collectors, ctxDone, panicMsg, mpc, tickNo, heap, closed,
      merged,
                 latestData, rlocks, nlist, nidx, subVars>>

CollectOk(c) == \E r \in Outputs(c) : CollectReturn(c, r, FALSE)

CollectErr(c) == CollectReturn(c, ErrOutput(c), TRUE)

\* a worker whose Collect never returns
CollectHang(c) ==
  /\ Alive
  /\ wstate[c] = "running"
  /\ wstate' = [wstate EXCEPT ![c] = "hung"]
  /\ UNCHANGED <<readVars, portVars, procVars, mainVars, callVars, collectors, ctxDone, panicMsg, mpc, tickNo, heap, ret, wg,
      results,
                 errors, closed, merged, latestData, rlocks, nlist, nidx, subVars>>

\* a worker whose Collect panics: the goroutine has no recover, the runtime
\* terminates the process
CollectPanic(c) ==
  /\ Alive
  /\ wstate[c] = "running"
  /\ wstate' = [wstate EXCEPT ![c] = "panicked"]
  /\ panicMsg' = "collector"
  /\ UNCHANGED <<readVars, portVars, procVars, mainVars, callVars, collectors, ctxDone, mpc, tickNo, heap, ret, wg, results,
      errors,
                 closed, merged, latestData, rlocks, nlist, nidx, subVars>>

\* the closing goroutine without its wg.Wait()
CloseChannels_NoWait ==
  /\ Alive
  /\ mpc = "merge"
  /\ ~closed
  /\ closed' = TRUE
  /\ UNCHANGED <<readVars, portVars, procVars, mainVars, callVars, collectors, ctxDone,
                 panicMsg, mpc, tickNo, heap, wstate, ret, wg, results, errors, merged,
                 latestData, rlocks, nlist, nidx, subVars>>

\* go func() { wg.Wait(); close(results); close(errors) }()
CloseChannels ==
  /\ Alive
  /\ mpc = "merge"
  /\ ~closed
  /\ wg = 0
  /\ closed' = TRUE
  /\ UNCHANGED <<readVars, portVars, procVars, mainVars, callVars, collectors, ctxDone, panicMsg, mpc, tickNo, heap, wstate,
      ret, wg,
                 results, errors, merged, latestData, rlocks, nlist, nidx, subVars>>

\* the aggregation loop storing data as latestData while it is still merging
MergeOne_Store ==
  /\ Alive
  /\ mpc = "merge"
  /\ results # <<>>
  /\ heap' = [heap EXCEPT ![tickNo] = MergeResult(@, ret[Head(results)])]
  /\ merged' = Append(merged, Head(results))
  /\ results' = Tail(results)
  /\ latestData' = tickNo
  /\ UNCHANGED <<readVars, portVars, procVars, mainVars, callVars, collectors, ctxDone, panicMsg, mpc, tickNo, wstate,
                 ret, wg, errors, closed, rlocks, nlist, nidx, subVars>>

\* one iteration of for result := range results
MergeOne ==
  /\ Alive
  /\ mpc = "merge"
  /\ results # <<>>
  /\ heap' = [heap EXCEPT ![tickNo] = MergeResult(@, ret[Head(results)])]
  /\ merged' = Append(merged, Head(results))
  /\ results' = Tail(results)
  /\ UNCHANGED <<readVars, portVars, procVars, mainVars, callVars, collectors, ctxDone, panicMsg, mpc, tickNo, wstate, ret,
      wg, errors,
                 closed, latestData, rlocks, nlist, nidx, subVars>>

\* the range loop ends (results closed and drained), then m.enrichData(data)
FinishMerge ==
  /\ Alive
  /\ mpc = "merge"
  /\ results = <<>>
  /\ closed
  /\ heap' = [heap EXCEPT ![tickNo] = EnrichData(@)]
  /\ mpc' = "store"
  /\ UNCHANGED <<readVars, portVars, procVars, mainVars, callVars, collectors, ctxDone, panicMsg, tickNo, wstate, ret, wg,
      results, errors,
                 closed, merged, latestData, rlocks, nlist, nidx, subVars>>

\* m.mu.Lock() succeeds in collect
StoreLock == rlocks = 0

\* collect going on to notifySubscribers without m.latestData = data
StoreLatest_NoStore ==
  /\ Alive
  /\ mpc = "store"
  /\ StoreLock
  /\ mpc' = "publish"
  /\ UNCHANGED <<readVars, portVars, procVars, mainVars, callVars, collectors, ctxDone,
                 panicMsg, collectVars, latestData, rlocks, nlist, nidx, subVars>>

\* m.mu.Lock(); m.latestData = data; m.mu.Unlock()
StoreLatest ==
  /\ Alive
  /\ mpc = "store"
  /\ StoreLock
  /\ latestData' = tickNo
  /\ mpc' = "publish"
  /\ UNCHANGED <<readVars, portVars, procVars, mainVars, callVars, collectors, ctxDone, panicMsg, collectVars, rlocks, nlist,
      nidx, subVars>>

\* ------------------------------------------------------ publish, subscribe

\* notifySubscribers: m.mu.RLock() and the start of the range over m.subscribers
NotifyBegin ==
  /\ Alive
  /\ mpc = "publish"
  /\ rlocks' = rlocks + 1
  /\ nlist' = subscribers
  /\ nidx' = 1
  /\ mpc' = "notify"
  /\ UNCHANGED <<readVars, portVars, procVars, mainVars, callVars, collectors, ctxDone, panicMsg, collectVars, latestData,
      subVars>>

\* whether select { case ch <- data: default: } takes the send
SendReady(buf) == Len(buf) < ChanCap

\* the range with a plain ch <- data, which waits while the channel is full
NotifyStep_Blocking ==
  /\ Alive
  /\ mpc = "notify"
  /\ nidx <= Len(nlist)
  /\ LET ch == nlist[nidx] IN
       IF chanClosed[ch]
       THEN /\ panicMsg' = "send on closed channel"
            /\ UNCHANGED <<chanBuf, dropPending>>
       ELSE /\ SendReady(chanBuf[ch])
            /\ panicMsg' = panicMsg
            /\ chanBuf' = [chanBuf EXCEPT ![ch] = Append(@, tickNo)]
            /\ dropPending' = dropPending
  /\ nidx' = nidx + 1
  /\ UNCHANGED <<readVars, portVars, procVars, mainVars, callVars, collectors, ctxDone, mpc, collectVars, latestData, rlocks,
      subscribers,
                 nlist, chanClosed, nextChan, hpc, lastRecv>>

\* the range making room in a full channel by discarding its oldest snapshot
NotifyStep_DropOldest ==
  /\ Alive
  /\ mpc = "notify"
  /\ nidx <= Len(nlist)
  /\ LET ch == nlist[nidx] IN
       IF chanClosed[ch]
       THEN /\ panicMsg' = "send on closed channel"
            /\ UNCHANGED <<chanBuf, dropPending>>
       ELSE /\ panicMsg' = panicMsg
            /\ IF SendReady(chanBuf[ch])
               THEN /\ chanBuf' = [chanBuf EXCEPT ![ch] = Append(@, tickNo)]
                    /\ dropPending' = dropPending
               ELSE /\ chanBuf' = [chanBuf EXCEPT ![ch] = Append(Tail(@), tickNo)]
                    /\ dropPending' = [dropPending EXCEPT ![ch] = tickNo]
  /\ nidx' = nidx + 1
  /\ UNCHANGED <<readVars, portVars, procVars, mainVars, callVars, collectors, ctxDone, mpc,
                 collectVars, latestData, rlocks, subscribers, nlist, chanClosed, nextChan,
                 hpc, lastRecv>>

\* one iteration of the range: the non-blocking send of data on ch; a send on a
\* closed channel panics
NotifyStep ==
  /\ Alive
  /\ mpc = "notify"
  /\ nidx <= Len(nlist)
  /\ LET ch == nlist[nidx] IN
       IF chanClosed[ch]
       THEN /\ panicMsg' = "send on closed channel"
            /\ UNCHANGED <<chanBuf, dropPending>>
       ELSE /\ panicMsg' = panicMsg
            /\ IF SendReady(chanBuf[ch])
               THEN /\ chanBuf' = [chanBuf EXCEPT ![ch] = Append(@, tickNo)]
                    /\ dropPending' = dropPending
               ELSE /\ chanBuf' = chanBuf
                    /\ dropPending' = [dropPending EXCEPT ![ch] = tickNo]
  /\ nidx' = nidx + 1
  /\ UNCHANGED <<readVars, portVars, procVars, mainVars, callVars, collectors, ctxDone, mpc, collectVars, latestData, rlocks,
      subscribers,
                 nlist, chanClosed, nextChan, hpc, lastRecv>>

\* collect emptying the lists of data once notifySubscribers has returned
NotifyEnd_ResetData ==
  /\ Alive
  /\ mpc = "notify"
  /\ nidx > Len(nlist)
  /\ rlocks' = rlocks - 1
  /\ mpc' = "select"
  /\ heap' = [heap EXCEPT ![tickNo] = NewData]
  /\ UNCHANGED <<readVars, portVars, procVars, mainVars, callVars, collectors, ctxDone,
                 panicMsg, tickNo, wstate, ret, wg, results, errors, closed, merged,
                 latestData, nlist, nidx, subVars>>

\* the range ends, the deferred m.mu.RUnlock() runs, collect returns to Start
NotifyEnd ==
  /\ Alive
  /\ mpc = "notify"
  /\ nidx > Len(nlist)
  /\ rlocks' = rlocks - 1
  /\ mpc' = "select"
  /\ UNCHANGED <<readVars, portVars, procVars, mainVars, callVars, collectors, ctxDone, panicMsg, collectVars, latestData,
      nlist, nidx,
                 subVars>>

\* m.mu.Lock() succeeds in Subscribe
SubscribeLock == rlocks = 0

\* handleWebSocket up to updateCh := s.manager.Subscribe()
Subscribe(limit) ==
  /\ Alive
  /\ nextChan <= limit
  /\ SubscribeLock
  /\ subscribers' = Append(subscribers, nextChan)
  /\ hpc' = [hpc EXCEPT ![nextChan] = "initial"]
  /\ nextChan' = nextChan + 1
  /\ UNCHANGED <<readVars, portVars, procVars, mainVars, callVars, collectors, ctxDone, panicMsg, mpc, collectVars,
      latestData, rlocks,
                 nlist, nidx, chanBuf, chanClosed, lastRecv, dropPending>>

\* handleWebSocket: the initial s.manager.GetLatestData() and its WriteJSON
WsInitial(ch) ==
  /\ Alive
  /\ hpc[ch] = "initial"
  /\ hpc' = [hpc EXCEPT ![ch] = "loop"]
  /\ UNCHANGED <<readVars, portVars, procVars, mainVars, callVars, collectors, ctxDone, panicMsg, mpc, collectVars,
      latestData, rlocks,
                 nlist, nidx, subscribers, chanBuf, chanClosed, nextChan, lastRecv,
                 dropPending>>

\* handleWebSocket: case data := <-updateCh
WsReceive(ch) ==
  /\ Alive
  /\ hpc[ch] = "loop"
  /\ chanBuf[ch] # <<>>
  /\ lastRecv' = [lastRecv EXCEPT ![ch] = Head(chanBuf[ch])]
  /\ chanBuf' = [chanBuf EXCEPT ![ch] = Tail(@)]
  /\ dropPending' = [dropPending EXCEPT ![ch] = 0]
  /\ UNCHANGED <<readVars, portVars, procVars, mainVars, callVars, collectors, ctxDone, panicMsg, mpc, collectVars,
      latestData, rlocks,
                 nlist, nidx, subscribers, chanClosed, nextChan, hpc>>

\* Unsubscribe without taking the lock
UnsubscribeLock_None == TRUE

\* m.mu.Lock() succeeds in Unsubscribe
UnsubscribeLock == rlocks = 0

\* the subscribers slice without its first occurrence of ch
RemoveFirst(subs, ch) ==
  LET hits == {i \in 1..Len(subs) : subs[i] = ch}
      k == CHOOSE i \in hits : \A j \in hits : i <= j
  IN IF hits = {} THEN subs
     ELSE [i \in 1..(Len(subs) - 1) |-> IF i < k THEN subs[i] ELSE subs[i + 1]]

\* Unsubscribe closing ch whether or not it found it among the subscribers
Unsubscribe_CloseAlways(ch) ==
  /\ subscribers' = RemoveFirst(subscribers, ch)
  /\ chanClosed' = [chanClosed EXCEPT ![ch] = TRUE]

\* Manager.Unsubscribe(ch) inside the lock
Unsubscribe(ch) ==
  /\ subscribers' = RemoveFirst(subscribers, ch)
  /\ chanClosed' = [chanClosed EXCEPT ![ch] = @ \/ (\E i \in 1..Len(subscribers) : subscribers[i] = ch)]

\* handleWebSocket returns (a failed write, or done): defer s.manager.Unsubscribe(updateCh)
WsClose(ch) ==
  /\ Alive
  /\ hpc[ch] \in {"initial", "loop"}
  /\ UnsubscribeLock
  /\ Unsubscribe(ch)
  /\ hpc' = [hpc EXCEPT ![ch] = "closed"]
  /\ UNCHANGED <<readVars, portVars, procVars, mainVars, callVars, collectors, ctxDone, panicMsg, mpc, collectVars,
      latestData, rlocks,
                 nlist, nidx, chanBuf, nextChan, lastRecv, dropPending>>

\* m.Unsubscribe(ch) called once more for a channel whose handler has returned (and
\* has unsubscribed it)
UnsubscribeAgain(ch) ==
  /\ Alive
  /\ hpc[ch] = "closed"
  /\ UnsubscribeLock
  /\ Unsubscribe(ch)
  /\ ucalled' = ucalled \cup {ch}
  /\ UNCHANGED <<readVars, portVars, procVars, mainVars, collectors, ctxDone, panicMsg, mpc,
                 collectVars, latestData, rlocks, nlist, nidx, chanBuf, nextChan, hpc,
                 lastRecv, dropPending>>

\* m.Unsubscribe(ch) called with a channel the caller made itself: ch is the next
\* channel made in the process, and Subscribe never returned it
UnsubscribeForeign(limit) ==
  /\ Alive
  /\ nextChan <= limit
  /\ UnsubscribeLock
  /\ Unsubscribe(nextChan)
  /\ ucalled' = ucalled \cup {nextChan}
  /\ nextChan' = nextChan + 1
  /\ UNCHANGED <<readVars, portVars, procVars, mainVars, collectors, ctxDone, panicMsg, mpc,
                 collectVars, latestData, rlocks, nlist, nidx, chanBuf, hpc, lastRecv,
                 dropPending>>

\* Manager.GetLatestData: m.mu.RLock(); return m.latestData (the writers of mu
\* hold it for one assignment, so the read lock is always granted)
GetLatestData == latestData

\* Server.handleData: data := s.manager.GetLatestData(); s.writeJSON(w, data)
HandleData ==
  /\ Alive
  /\ got' = GetLatestData
  /\ UNCHANGED <<portVars, procVars, mainVars, callVars, collectors, ctxDone, panicMsg, mpc, collectVars, latestData,
                 rlocks, nlist, nidx, subVars>>

\* ------------------------------------------------- PortCollector.Collect

managerVars ==
  <<readVars, mainVars, callVars, collectors, ctxDone, panicMsg, mpc, collectVars, latestData, rlocks,
    nlist, nidx, subVars>>

Procs == ProcTable(penv.procs)

\* the /proc/net file being read, its protocol argument, the line being parsed
CurFile == penv.net[pfile]
CurProtocol == ProcNetProtocol[pfile]
CurNetLine == CurFile.lines[pline]
CurHead == parseProcNetHead(NetLineText(CurNetLine), CurProtocol)

\* Collect is called: result := &CollectionResult{...}, then c.collectWithSS(ctx)
PortCollect ==
  /\ ppc = "idle"
  /\ ppc' = "ss"
  /\ pcalls' = <<"collectWithSS">>
  /\ UNCHANGED <<managerVars, procVars, penv, pctxDone, pfile, pline, pdir, pports, pret>>

\* exec.CommandContext(ctx, "ss", "-tulnp").Output() returns an error: ss cannot be
\* run, or ctx is cancelled (the command is not started, or is killed)
SsCommandFails == ~penv.ss.ok \/ pctxDone

\* collectWithSS returns the error and Collect calls collectFromProcNet
SsFail ==
  /\ ppc = "ss"
  /\ SsCommandFails
  /\ pcalls' = Append(pcalls, "collectFromProcNet")
  /\ ppc' = "file"
  /\ pfile' = 1
  /\ pports' = <<>>
  /\ UNCHANGED <<managerVars, procVars, penv, pctxDone, pline, pdir, pret>>

\* cmd.Output() succeeds: ports := make([]PortInfo, 0), the header is skipped
SsRun ==
  /\ ppc = "ss"
  /\ ~SsCommandFails
  /\ ppc' = "ssparse"
  /\ pline' = 2
  /\ pports' = <<>>
  /\ UNCHANGED <<managerVars, procVars, penv, pctxDone, pcalls, pfile, pdir, pret>>

\* one iteration of the scanner loop of collectWithSS
SsParseLine ==
  /\ ppc = "ssparse"
  /\ pline <= Len(penv.ss.out)
  /\ LET r == parseSSLine(SsLineText(penv.ss.out[pline]), Procs)
     IN pports' = IF r.ok THEN Append(pports, r.info) ELSE pports
  /\ pline' = pline + 1
  /\ UNCHANGED <<managerVars, procVars, penv, pctxDone, ppc, pcalls, pfile, pdir, pret>>

\* collectWithSS falling back when it parsed no entry
SsReturn_FallbackOnEmpty ==
  /\ ppc = "ssparse"
  /\ pline > Len(penv.ss.out)
  /\ IF pports = <<>>
     THEN /\ pcalls' = Append(pcalls, "collectFromProcNet")
          /\ ppc' = "file"
          /\ pfile' = 1
          /\ pret' = pret
     ELSE /\ pret' = [ports |-> pports, err |-> FALSE]
          /\ ppc' = "done"
          /\ UNCHANGED <<pcalls, pfile>>
  /\ UNCHANGED <<managerVars, procVars, penv, pctxDone, pline, pdir, pports>>

\* collectWithSS returns (ports, nil); Collect: result.Ports = ports; return result, nil
SsReturn ==
  /\ ppc = "ssparse"
  /\ pline > Len(penv.ss.out)
  /\ pret' = [ports |-> pports, err |-> FALSE]
  /\ ppc' = "done"
  /\ UNCHANGED <<managerVars, procVars, penv, pctxDone, pcalls, pfile, pline, pdir, pports>>

\* readProcNetFile: os.Open(path); on an error collectFromProcNet goes to the next
\* file, otherwise the header is skipped. The ports of a file are appended to those
\* of collectFromProcNet as they are parsed: readProcNetFile cannot fail after Open.
OpenNetFile ==
  /\ ppc = "file"
  /\ pfile <= Len(ProcNetFiles)
  /\ IF CurFile.ok
     THEN ppc' = "net" /\ pline' = 2 /\ pfile' = pfile
     ELSE ppc' = ppc /\ pline' = pline /\ pfile' = pfile + 1
  /\ UNCHANGED <<managerVars, procVars, penv, pctxDone, pcalls, pdir, pports, pret>>

\* parseProcNetLine up to findPIDByInode: a line without entry is passed over,
\* otherwise os.ReadDir("/proc") and the scan begin
ParseNetLine ==
  /\ ppc = "net"
  /\ pline <= Len(CurFile.lines)
  /\ IF CurHead.skip
     THEN ppc' = ppc /\ pline' = pline + 1 /\ pdir' = pdir
     ELSE ppc' = "scan" /\ pline' = pline /\ pdir' = 1
  /\ UNCHANGED <<managerVars, procVars, penv, pctxDone, pcalls, pfile, pports, pret>>

\* one iteration of for _, dir := range procDirs: the entry owns the socket and
\* parseProcNetLine returns the entry with its pid, or the loop goes on
ScanDir ==
  /\ ppc = "scan"
  /\ pdir <= Len(Procs)
  /\ IF DirOwns(Procs[pdir], CurHead.inode)
     THEN /\ pports' = Append(pports,
                         parseProcNetTail(CurHead.info, DirPid(Procs[pdir]).val, Procs))
          /\ ppc' = "net"
          /\ pline' = pline + 1
          /\ pdir' = pdir
     ELSE /\ pdir' = pdir + 1
          /\ UNCHANGED <<pports, ppc, pline>>
  /\ UNCHANGED <<managerVars, procVars, penv, pctxDone, pcalls, pfile, pret>>

\* the range is over: findPIDByInode returns 0
ScanEnd ==
  /\ ppc = "scan"
  /\ pdir > Len(Procs)
  /\ pports' = Append(pports, parseProcNetTail(CurHead.info, 0, Procs))
  /\ ppc' = "net"
  /\ pline' = pline + 1
  /\ UNCHANGED <<managerVars, procVars, penv, pctxDone, pcalls, pfile, pdir, pret>>

\* the scanner of readProcNetFile is at the end of the file
NetFileEnd ==
  /\ ppc = "net"
  /\ pline > Len(CurFile.lines)
  /\ ppc' = "file"
  /\ pfile' = pfile + 1
  /\ UNCHANGED <<managerVars, procVars, penv, pctxDone, pcalls, pline, pdir, pports, pret>>

\* the error collectFromProcNet returns: return ports, nil, whatever the reads did
collectFromProcNetErr == FALSE

\* collectFromProcNet returns; Collect: if err != nil { return nil, err }, else
\* result.Ports = ports; return result, nil
ProcNetReturn ==
  /\ ppc = "file"
  /\ pfile > Len(ProcNetFiles)
  /\ pret' = IF collectFromProcNetErr THEN [ports |-> <<>>, err |-> TRUE]
             ELSE [ports |-> pports, err |-> FALSE]
  /\ ppc' = "done"
  /\ UNCHANGED <<managerVars, procVars, penv, pctxDone, pcalls, pfile, pline, pdir, pports>>

\* the context of the Collect call is cancelled, or its deadline passes
PortCancel ==
  /\ ppc # "done"
  /\ ~pctxDone
  /\ pctxDone' = TRUE
  /\ UNCHANGED <<managerVars, procVars, penv, ppc, pcalls, pfile, pline, pdir, pports, pret>>

\* ---------------------------------------------- ProcessCollector.Collect

\* process.ProcessesWithContext(ctx) fails: return nil, fmt.Errorf(...)
ProcessListFails ==
  /\ qpc = "idle"
  /\ qret' = [nil |-> TRUE, Processes |-> <<>>, err |-> TRUE]
  /\ qpc' = "done"
  /\ UNCHANGED <<managerVars, portVars, qalive, qprocs, qidx, qfail, qout>>

\* process.ProcessesWithContext(ctx) lists the processes that exist;
\* result.Processes = make([]ProcessInfo, 0, len(procs))
ProcessList ==
  /\ qpc = "idle"
  /\ qprocs' = SelectSeq(HostPids, LAMBDA pid : pid \in qalive)
  /\ qidx' = 1
  /\ qout' = <<>>
  /\ qpc' = "loop"
  /\ UNCHANGED <<managerVars, portVars, qalive, qfail, qret>>

\* a process of the host exits
ProcessExit(pid) ==
  /\ qpc # "done"
  /\ pid \in qalive
  /\ qalive' = qalive \ {pid}
  /\ UNCHANGED <<managerVars, portVars, qpc, qprocs, qidx, qfail, qout, qret>>

\* one iteration of for _, p := range procs: on an error of collectProcess the
\* process is skipped, otherwise *info is appended
CollectProcessStep ==
  /\ qpc = "loop"
  /\ qidx <= Len(qprocs)
  /\ LET pid == qprocs[qidx]
         r == collectProcess(pid, pid \in qalive)
     IN /\ qout' = IF r.err THEN qout ELSE Append(qout, r.info)
        /\ qfail' = IF pid \in qalive THEN qfail ELSE qfail \cup {pid}
  /\ qidx' = qidx + 1
  /\ UNCHANGED <<managerVars, portVars, qalive, qpc, qprocs, qret>>

\* return result, nil
ProcessReturn ==
  /\ qpc = "loop"
  /\ qidx > Len(qprocs)
  /\ qret' = [nil |-> FALSE, Processes |-> qout, err |-> FALSE]
  /\ qpc' = "done"
  /\ UNCHANGED <<managerVars, portVars, qalive, qprocs, qidx, qfail, qout>>

\* ------------------------------------------------------- specifications

WorkerStep ==
  \E c \in Collectors : CollectOk(c) \/ CollectErr(c) \/ CollectHang(c) \/ CollectPanic(c)

CollectStep ==
  CloseChannels \/ FinishMerge \/ StoreLatest \/ NotifyBegin \/ NotifyStep \/ NotifyEnd

HandlerStep ==
  \E ch \in Chans : WsInitial(ch) \/ WsReceive(ch) \/ WsClose(ch)

\* every goroutine of the agent, while the process is alive
Next ==
  \/ Start
  \/ TickerFire(MaxTicks)
  \/ SelectDone
  \/ Cancel
  \/ WorkerStep
  \/ MergeOne
  \/ CollectStep
  \/ Subscribe(MaxSpecSubs)
  \/ HandlerStep

Spec == Init /\ [][Next]_vars

\* the agent constructed with no collector: NewManager(nil, ...)
InitPub == NewManager(<<>>) /\ got = NoPtr /\ PortIdle /\ ProcIdle /\ NoMain

\* its goroutines: no worker is ever started
NextPub ==
  \/ Start
  \/ TickerFire(MaxPubTicks)
  \/ SelectDone
  \/ Cancel
  \/ CollectStep
  \/ Subscribe(MaxSubs)
  \/ HandlerStep

SpecPub == InitPub /\ [][NextPub]_vars

\* the agent without collectors whose subscribers come and go, with callers of
\* Unsubscribe besides the websocket handlers
NextUnsub ==
  \/ Start
  \/ TickerFire(MaxTicks)
  \/ SelectDone
  \/ Cancel
  \/ CollectStep
  \/ Subscribe(MaxSubs + 1)
  \/ HandlerStep
  \/ \E ch \in Chans : UnsubscribeAgain(ch)
  \/ UnsubscribeForeign(MaxSubs + 2)

SpecUnsub == InitPub /\ [][NextUnsub]_vars

\* one Collect call of the port collector on some host
InitPort ==
  /\ NewManager(<<>>)
  /\ got = NoPtr
  /\ penv \in PortEnvs
  /\ pctxDone = FALSE
  /\ ppc = "idle"
  /\ pcalls = <<>>
  /\ pfile = 0
  /\ pline = 0
  /\ pdir = 0
  /\ pports = <<>>
  /\ pret = NoRet
  /\ ProcIdle
  /\ NoMain

NextPort ==
  \/ PortCollect
  \/ SsFail
  \/ SsRun
  \/ SsParseLine
  \/ SsReturn
  \/ OpenNetFile
  \/ ParseNetLine
  \/ ScanDir
  \/ ScanEnd
  \/ NetFileEnd
  \/ ProcNetReturn
  \/ PortCancel

SpecPort == InitPort /\ [][NextPort]_vars

\* one Collect call of the process collector while processes of the host exit
InitProc == NewManager(<<>>) /\ got = NoPtr /\ PortIdle /\ ProcIdle /\ NoMain

NextProc ==
  \/ ProcessListFails
  \/ ProcessList
  \/ \E pid \in qalive : ProcessExit(pid)
  \/ CollectProcessStep
  \/ ProcessReturn

SpecProc == InitProc /\ [][NextProc]_vars

\* run of main: initCollectors over every configuration and every set of failing
\* constructors, NewManager(collectors, ...), go manager.Start(ctx)
InitMain ==
  /\ \E enabled \in SUBSET Optional : \E failing \in SUBSET enabled :
        /\ ctorErr = failing
        /\ NewManager(initCollectors(enabled, failing))
  /\ got = NoPtr
  /\ PortIdle
  /\ ProcIdle
  /\ ucalled = {}

SpecMain == InitMain /\ [][Next]_vars

\* the agent with two collectors, serving GET /api/v1/data besides the websocket
InitRead == NewManager(<<"host", "docker">>) /\ got = NoPtr /\ PortIdle /\ ProcIdle /\ NoMain

NextRead ==
  \/ Start
  \/ TickerFire(MaxTicks)
  \/ SelectDone
  \/ Cancel
  \/ WorkerStep
  \/ MergeOne
  \/ CollectStep
  \/ Subscribe(MaxSpecSubs)
  \/ HandlerStep
  \/ HandleData

SpecRead == InitRead /\ [][NextRead]_vars

\* a worker whose Collect returns
WorkerReturn == \E c \in Collectors : CollectOk(c) \/ CollectErr(c)

\* the agent when every Collect returns: no worker hangs or panics
NextLive ==
  \/ Start
  \/ TickerFire(MaxTicks)
  \/ SelectDone
  \/ Cancel
  \/ WorkerReturn
  \/ MergeOne
  \/ CollectStep
  \/ Subscribe(MaxSpecSubs)
  \/ HandlerStep

\* every goroutine that can run does run (the Go scheduler); a select with several
\* ready cases picks one at random, so a case that is ready again and again is taken
Fairness ==
  /\ WF_vars(Start)
  /\ WF_vars(WorkerReturn)
  /\ WF_vars(MergeOne)
  /\ WF_vars(CollectStep)
  /\ SF_vars(SelectDone)

SpecLive == Init /\ [][NextLive]_vars /\ Fairness

\* ----------------------------------------------------------------- claims

SeqToSet(s) == {s[i] : i \in 1..Len(s)}

Count(s, x) == Cardinality({i \in 1..Len(s) : s[i] = x})

\* the identity keys of a list of processes, and of ports
ProcKeys(s) == [i \in 1..Len(s) |-> s[i].PID]
PortKeys(s) == [i \in 1..Len(s) |-> s[i].Port]

\* this tick's snapshot is the cached latest (collect is past its store)
Stored == tickNo > 0 /\ latestData = tickNo

Snap == heap[tickNo]

\* the collectors whose Collect returned without, and with, an error this tick
OkSet == {c \in Registered : wstate[c] = "ok"}
ErrSet == {c \in Registered : wstate[c] = "err"}

\* every list entry of result r is in snapshot d
ListsContained(r, d) ==
  /\ SeqToSet(ProcKeys(r.Processes)) \subseteq SeqToSet(ProcKeys(d.Processes))
  /\ SeqToSet(PortKeys(r.Ports)) \subseteq SeqToSet(PortKeys(d.Ports))
  /\ SeqToSet(r.SystemdUnits) \subseteq SeqToSet(d.SystemdUnits)
  /\ SeqToSet(r.Containers) \subseteq SeqToSet(d.Containers)
  /\ SeqToSet(r.Pods) \subseteq SeqToSet(d.Pods)

\* no list entry of result r is in snapshot d
ListsAbsent(r, d) ==
  /\ SeqToSet(ProcKeys(r.Processes)) \cap SeqToSet(ProcKeys(d.Processes)) = {}
  /\ SeqToSet(PortKeys(r.Ports)) \cap SeqToSet(PortKeys(d.Ports)) = {}
  /\ SeqToSet(r.SystemdUnits) \cap SeqToSet(d.SystemdUnits) = {}
  /\ SeqToSet(r.Containers) \cap SeqToSet(d.Containers) = {}
  /\ SeqToSet(r.Pods) \cap SeqToSet(d.Pods) = {}

OkSystems == {ret[c].System : c \in OkSet} \ {NoSystem}

\* C1 as stated: the stored snapshot holds every list entry AND the system info of
\* every collector that succeeded in the tick, and nothing of a failing collector.
C1_IsolationAsStated ==
  Stored =>
    /\ \A c \in OkSet : ListsContained(ret[c], Snap)
    /\ \A c \in OkSet : ret[c].System # NoSystem => Snap.System = ret[c].System
    /\ \A c \in ErrSet :
         /\ ListsAbsent(ret[c], Snap)
         /\ ret[c].System # NoSystem => Snap.System # ret[c].System

\* C1 (amended): in every tick the stored snapshot holds every process, port,
\* systemd unit, container and pod of every collector whose Collect succeeded; its
\* system info is that of one of the successful collectors whenever one of them
\* returned a system info; a failing collector contributes no entry and no system.
C1_IsolationOnError ==
  Stored =>
    /\ \A c \in OkSet : ListsContained(ret[c], Snap)
    /\ OkSystems # {} => Snap.System \in OkSystems
    /\ OkSystems = {} => Snap.System = NoSystem
    /\ \A c \in ErrSet :
         /\ ListsAbsent(ret[c], Snap)
         /\ ret[c].System # NoSystem => Snap.System # ret[c].System

\* three collectors, one failed and two succeeded with data, in the second tick
C1_Witness ==
  /\ Stored
  /\ tickNo = 2
  /\ mpc = "select"
  /\ wstate["systemd"] = "err"
  /\ wstate["host"] = "ok"
  /\ wstate["docker"] = "ok"
  /\ Len(Snap.Processes) = 4
  /\ Len(Snap.Containers) = 3

\* a step of the current tick that brings it forward: a worker returns, the channels
\* are closed, a result is merged, the snapshot is enriched, stored or published
TickProgress ==
  \/ \E c \in Collectors : CollectOk(c) \/ CollectErr(c)
  \/ CloseChannels
  \/ MergeOne
  \/ FinishMerge
  \/ StoreLatest
  \/ NotifyBegin
  \/ NotifyStep
  \/ NotifyEnd

InTick == mpc \in {"merge", "store", "publish", "notify"}

\* C2: a panic inside one collector's Collect is caught: the tick it happened in
\* goes on (the siblings return, the snapshot is merged, stored and published).
C2_PanicIsCaught ==
  (InTick /\ (\E c \in Collectors : wstate[c] = "panicked")
          /\ (\A c \in Collectors : wstate[c] # "hung"))
    => ENABLED TickProgress

\* C3: a collector whose Collect never returns does not hang the Manager: the tick
\* it hangs in still goes on to merge, store and publish the other results.
C3_HungCollectorAbandoned ==
  (InTick /\ (\E c \in Collectors : wstate[c] = "hung")) => ENABLED TickProgress

\* the successful collectors' entries of one list, as keys with their multiplicity
Returned(field(_), x) ==
  LET RECURSIVE Sum(_)
      Sum(S) == IF S = {} THEN 0
                ELSE LET c == CHOOSE c \in S : TRUE
                     IN Count(field(ret[c]), x) + Sum(S \ {c})
  IN Sum(OkSet)

ProcKeysOf(r) == ProcKeys(r.Processes)
PortKeysOf(r) == PortKeys(r.Ports)
UnitsOf(r) == r.SystemdUnits
ContainersOf(r) == r.Containers
PodsOf(r) == r.Pods

\* every entity any collector can return, by list
AllOf(field(_)) == UNION {SeqToSet(field(r)) : r \in UNION {Outputs(c) : c \in Collectors}}

\* list field of the snapshot holds exactly what the successful collectors returned
ExactList(field(_)) ==
  /\ SeqToSet(field(Snap)) \subseteq AllOf(field)
  /\ \A x \in AllOf(field) : Count(field(Snap), x) = Returned(field, x)

\* C4: each list of the stored snapshot holds exactly the entries the collectors
\* that succeeded in the tick returned, each as often as it was returned; with no
\* result at all every list is empty and System is nil.
C4_MergeExact ==
  Stored =>
    /\ ExactList(ProcKeysOf)
    /\ ExactList(PortKeysOf)
    /\ ExactList(UnitsOf)
    /\ ExactList(ContainersOf)
    /\ ExactList(PodsOf)
    /\ (\A c \in OkSet : ret[c].nil) =>
         /\ Len(Snap.Processes) = 0 /\ Len(Snap.Ports) = 0
         /\ Len(Snap.SystemdUnits) = 0 /\ Len(Snap.Containers) = 0
         /\ Len(Snap.Pods) = 0 /\ Snap.System = NoSystem

\* all three collectors returned data and the snapshot holds all of it
C4_Witness ==
  /\ Stored
  /\ OkSet = Collectors
  /\ ~ret["systemd"].nil
  /\ Len(Snap.Processes) = 4 /\ Len(Snap.Ports) = 4 /\ Len(Snap.SystemdUnits) = 3
  /\ Len(Snap.Containers) = 3 /\ Len(Snap.Pods) = 1

\* the System of the first merged result that carries one
FirstSystem ==
  LET hits == {i \in 1..Len(merged) : ret[merged[i]].System # NoSystem}
  IN IF hits = {} THEN NoSystem
     ELSE ret[merged[CHOOSE i \in hits : \A j \in hits : i <= j]].System

\* C5: when several results of a tick carry a SystemInfo, the snapshot keeps the
\* one of the first such result the merge encountered.
C5_FirstSystemKept == Stored => Snap.System = FirstSystem

\* the processes and ports the successful collectors returned, before enrichment
OrigProcesses == UNION {SeqToSet(ret[c].Processes) : c \in OkSet}
OrigPorts == UNION {SeqToSet(ret[c].Ports) : c \in OkSet}

\* entity e (a process or a port, pid its owning pid) carries what enrichment owes it
Enriched(e, pid, orig) ==
  /\ \A c \in SeqToSet(Snap.Containers) :
       (pid > 0 /\ c.Pid = pid) =>
         /\ e.ContainerID = c.ID
         /\ e.ContainerName = c.Name
         /\ e.PodName = c.PodName
         /\ e.PodNamespace = c.PodNamespace
  /\ \A u \in SeqToSet(Snap.SystemdUnits) :
       (pid > 0 /\ u.MainPID = pid) => e.SystemdUnit = u.Name
  /\ ((\E c \in SeqToSet(Snap.Containers) : pid > 0 /\ c.Pid = pid)
        /\ ~(\E u \in SeqToSet(Snap.SystemdUnits) : pid > 0 /\ u.MainPID = pid)
        /\ orig.SystemdUnit = "")
       => e.SystemdUnit = ""
  /\ ((\E u \in SeqToSet(Snap.SystemdUnits) : pid > 0 /\ u.MainPID = pid)
        /\ ~(\E c \in SeqToSet(Snap.Containers) : pid > 0 /\ c.Pid = pid)
        /\ orig.ContainerID = "" /\ orig.ContainerName = "" /\ orig.PodName = ""
        /\ orig.PodNamespace = "")
       => (e.ContainerID = "" /\ e.ContainerName = "" /\ e.PodName = ""
           /\ e.PodNamespace = "")

\* C6: in the stored snapshot every process and port with a positive pid that is a
\* merged container's main pid carries that container's id, name and pod fields,
\* every one whose pid is a merged unit's main pid carries the unit's name, and one
\* matching only a container (only a unit) keeps an empty systemd (container) part.
C6_EnrichmentCorrect ==
  Stored =>
    /\ \A e \in SeqToSet(Snap.Processes) :
         \E o \in OrigProcesses : o.PID = e.PID /\ Enriched(e, e.PID, o)
    /\ \A e \in SeqToSet(Snap.Ports) :
         \E o \in OrigPorts :
           /\ o.Port = e.Port
           /\ Enriched(e, e.PID, o)
           /\ \A c \in SeqToSet(Snap.Containers) :
                (e.PID > 0 /\ c.Pid = e.PID) => e.ContainerImage = c.Image

\* pid 100 matched only the container, pid 200 only the unit, pid 400 both
C6_Witness ==
  /\ Stored
  /\ \E e \in SeqToSet(Snap.Processes) :
       e.PID = 100 /\ e.ContainerID = "c1" /\ e.PodName = "pod-a" /\ e.SystemdUnit = ""
  /\ \E e \in SeqToSet(Snap.Processes) :
       e.PID = 200 /\ e.SystemdUnit = "sshd.service" /\ e.ContainerID = ""
  /\ \E e \in SeqToSet(Snap.Ports) :
       e.PID = 400 /\ e.SystemdUnit = "db.service" /\ e.ContainerName = "db"
  /\ \E e \in SeqToSet(Snap.Ports) : e.PID = 0 /\ e.ContainerID = "" /\ e.SystemdUnit = ""

\* what the non-blocking send of NotifyStep owes the channel ch it is at: the
\* snapshot is appended when ch has room, only this update is lost when ch is full,
\* no other channel is touched and the range goes on
SendPost ==
  LET ch == nlist[nidx] IN
    /\ IF Len(chanBuf[ch]) < ChanCap
       THEN chanBuf'[ch] = Append(chanBuf[ch], tickNo)
       ELSE chanBuf'[ch] = chanBuf[ch]
    /\ \A o \in Chans \ {ch} : chanBuf'[o] = chanBuf[o]
    /\ mpc' = "notify"
    /\ nidx' = nidx + 1

\* C7: notifySubscribers never waits for a subscriber: at every position of its
\* range, whatever the fill of the channels, its next step can be taken; that step
\* drops the update only for a full channel and delivers it to a channel with room,
\* and at the end of the range it returns.
C7_PublishNeverBlocks ==
  mpc = "notify" =>
    IF nidx <= Len(nlist)
    THEN ENABLED (NotifyStep /\ SendPost) /\ ~ENABLED (NotifyStep /\ ~SendPost)
    ELSE ENABLED NotifyEnd

\* the range is past two subscribers: the update was dropped for the one whose
\* channel is full, the other one has it in its channel
C7_Witness ==
  /\ mpc = "notify"
  /\ Len(nlist) = 2
  /\ nidx > Len(nlist)
  /\ \E a, b \in Chans :
       /\ a # b
       /\ Len(chanBuf[a]) = ChanCap
       /\ dropPending[a] = tickNo
       /\ Len(chanBuf[b]) > 0
       /\ chanBuf[b][Len(chanBuf[b])] = tickNo

\* C8: after an update was dropped for a subscriber, the snapshot its next receive
\* yields comes from a later tick than the dropped one.
C8_NextReceiveIsLater ==
  \A ch \in Chans :
    (dropPending[ch] > 0 /\ chanBuf[ch] # <<>>) => Head(chanBuf[ch]) > dropPending[ch]

\* handler ch takes a snapshot off its channel in this step
Receives(ch) == Len(chanBuf'[ch]) < Len(chanBuf[ch])

\* C9: every receive of a subscriber yields a snapshot of the Manager (a tick that
\* has been collected) of a strictly later tick than its previous receive: never
\* one twice, never out of order.
C9_ReceivesInTickOrder ==
  [][\A ch \in Chans :
       Receives(ch) => (lastRecv'[ch] > lastRecv[ch] /\ lastRecv'[ch] \in 1..tickNo)]_vars

\* a subscriber that has received and has a gap queued: a snapshot was skipped
C9_Witness ==
  \E ch \in Chans :
    /\ lastRecv[ch] > 0
    /\ Len(chanBuf[ch]) >= 2
    /\ \E i \in 1..(Len(chanBuf[ch]) - 1) : chanBuf[ch][i + 1] > chanBuf[ch][i] + 1

\* C10: no snapshot is sent on a closed channel: the process never panics with
\* "send on closed channel", and a channel Unsubscribe has closed is neither
\* registered nor ahead in the range of a notifySubscribers in progress.
C10_NoSendOnClosed ==
  /\ panicMsg # "send on closed channel"
  /\ \A ch \in Chans :
       chanClosed[ch] =>
         /\ \A i \in 1..Len(subscribers) : subscribers[i] # ch
         /\ mpc = "notify" => \A i \in nidx..Len(nlist) : nlist[i] # ch

\* a subscriber was removed, and a later tick is published to the remaining one
C10_Witness ==
  /\ mpc = "notify"
  /\ nidx > Len(nlist)
  /\ \E a, b \in Chans :
       /\ chanClosed[a]
       /\ ~chanClosed[b]
       /\ chanBuf[a] # <<>>
       /\ chanBuf[a][Len(chanBuf[a])] < tickNo
       /\ chanBuf[b] # <<>>
       /\ chanBuf[b][Len(chanBuf[b])] = tickNo

\* the tick whose store has run last (0: none yet, the snapshot of NewManager)
CompletedTick ==
  IF mpc = "new" THEN 0
  ELSE IF mpc \in {"merge", "store"} THEN tickNo - 1
  ELSE tickNo

\* the results the aggregation loop has taken this tick, merged in that order
RECURSIVE MergedSoFar(_)
MergedSoFar(n) ==
  IF n = 0 THEN NewData ELSE MergeResult(MergedSoFar(n - 1), ret[merged[n]])

\* C11: every GetLatestData returns the snapshot of the tick completed last (the
\* initial one before any), never an earlier one than a previous call returned;
\* when it is this tick's, all results are merged and enriched; and a snapshot that
\* has been stored is never written again.
C11_LatestIsComplete ==
  [][/\ HandleData =>
          /\ got' = CompletedTick
          /\ got' >= got
          /\ (got' > 0 /\ got' = tickNo) =>
                /\ closed /\ results = <<>>
                /\ heap[got'] = EnrichData(MergedSoFar(Len(merged)))
     /\ \A p \in 0..latestData : heap'[p] = heap[p]]_vars

\* a reader holds the snapshot of tick 1 while tick 2 is being merged
C11_Witness ==
  /\ got = 1
  /\ tickNo = 2
  /\ mpc = "merge"
  /\ Len(merged) = 1
  /\ Len(heap[got].Processes) = 4
  /\ Len(heap[got].Containers) = 3

\* C12: what a reader got from GetLatestData or from its channel is a value of its
\* own: not the object the Manager caches, not the object another reader holds.
C12_ReadersGetOwnValue ==
  /\ got # NoPtr => got # latestData
  /\ \A ch \in Chans :
       lastRecv[ch] > 0 => (lastRecv[ch] # latestData /\ lastRecv[ch] # got)

\* C13: in every snapshot a REST reader got or a subscriber received, the five
\* list fields are non-nil slices (they serialise as arrays, not as null).
C13_ListsPresent ==
  /\ got # NoPtr => ~heap[got].nilSlices
  /\ \A ch \in Chans : lastRecv[ch] > 0 => ~heap[lastRecv[ch]].nilSlices

\* C14: once the context is cancelled, Start returns.
C14_StartReturns == ctxDone ~> (mpc = "stopped")

\* cancelled while the second tick was in flight; the tick finished, Start returned
C14_Witness ==
  /\ mpc = "stopped"
  /\ ctxDone
  /\ tickNo = 2
  /\ latestData = 2
  /\ Len(collectors) = 3

\* C15: once the context is cancelled, the select of Start begins no collect, also
\* when the ticker is ready together with ctx.Done().
C15_NoTickAfterCancel == [][(ctxDone /\ mpc = "select") => tickNo' = tickNo]_vars

\* collectFromProcNet has been called in this Collect
RanB == Len(pcalls) = 2

\* all four reads of the socket tables fail
AllReadsFail == \A f \in 1..Len(ProcNetFiles) : ~penv.net[f].ok

\* C16: Collect returns an error exactly when Strategy A's command failed and the
\* reads of the socket tables by Strategy B fail; otherwise it returns a list.
C16_ErrorIffBothBroken ==
  ppc = "done" => (pret.err <=> (RanB /\ AllReadsFail))

\* what collectWithSS returns for the lines 2..n of an ss output
RECURSIVE SsPorts(_, _)
SsPorts(out, n) ==
  IF n < 2 THEN <<>>
  ELSE LET r == parseSSLine(SsLineText(out[n]), Procs)
       IN IF r.ok THEN Append(SsPorts(out, n - 1), r.info) ELSE SsPorts(out, n - 1)

\* what readProcNetFile returns for the lines 2..n of file f
RECURSIVE NetPorts(_, _)
NetPorts(f, n) ==
  IF n < 2 THEN <<>>
  ELSE LET h == parseProcNetHead(NetLineText(penv.net[f].lines[n]), ProcNetProtocol[f])
       IN IF h.skip THEN NetPorts(f, n - 1)
          ELSE Append(NetPorts(f, n - 1),
                      parseProcNetTail(h.info, findPIDByInode(h.inode, Procs), Procs))

\* what Strategy B alone produces from the socket tables: the files 1..f
RECURSIVE StrategyB(_)
StrategyB(f) ==
  IF f = 0 THEN <<>>
  ELSE StrategyB(f - 1)
         \o (IF penv.net[f].ok THEN NetPorts(f, Len(penv.net[f].lines)) ELSE <<>>)

\* C17: Strategy B is started by the step in which Strategy A's command fails and
\* by no other step (not when Strategy A succeeds, whatever it parsed); a Collect
\* that ran Strategy B returns exactly the list Strategy B produces from the socket
\* tables, one that did not returns exactly the parsed lines of ss.
C17_FallbackTrigger ==
  /\ [](/\ ppc \in {"file", "net", "scan"} => RanB
        /\ ppc = "ssparse" => ~RanB
        /\ ppc = "done" =>
             pret = [ports |-> IF RanB THEN StrategyB(Len(ProcNetFiles))
                               ELSE SsPorts(penv.ss.out, Len(penv.ss.out)),
                     err |-> FALSE])
  /\ [][IF ppc = "ss" /\ ppc' # "ss"
        THEN (Len(pcalls') = 2) <=> SsCommandFails
        ELSE ppc # "idle" => pcalls' = pcalls]_vars

\* ss cannot be run, and Collect has returned the three sockets of the tables
C17_Witness ==
  /\ ppc = "done"
  /\ ~penv.ss.ok
  /\ ~pctxDone
  /\ RanB
  /\ Len(pret.ports) = 3
  /\ pret.ports[1].PID = 1234
  /\ pret.ports[3].PID = 0

\* C18: once the context is cancelled, the scan of /proc for the owner of an inode
\* looks at no further entry.
C18_ScanHonoursContext ==
  [][(pctxDone /\ ppc = "scan" /\ ppc' = "scan") => pdir' = pdir]_vars

\* what the claim makes of each line of ss: no entry, or these fields
SsExpected(id) ==
  CASE id \in {"raw", "short"} -> [entry |-> FALSE, info |-> NewPortInfo]
    [] id = "nginx" ->
         [entry |-> TRUE,
          info |-> [Protocol |-> "tcp", State |-> <<"L", "I", "S", "T", "E", "N">>,
                   Address |-> <<"0", ".", "0", ".", "0", ".", "0">>, Port |-> 8080, PID |-> 1234,
                   ProcessName |-> <<"n", "g", "i", "n", "x">>]]
    [] id = "sshd6" ->
         [entry |-> TRUE,
          info |-> [Protocol |-> "tcp", State |-> <<"L", "I", "S", "T", "E", "N">>,
                   Address |-> <<":", ":">>, Port |-> 22, PID |-> 200,
                   ProcessName |-> <<"s", "s", "h", "d">>]]
    [] id = "dns" ->
         [entry |-> TRUE,
          info |-> [Protocol |-> "udp", State |-> <<"U", "N", "C", "O", "N", "N">>,
                   Address |-> <<"0", ".", "0", ".", "0", ".", "0">>, Port |-> 53, PID |-> 0,
                   ProcessName |-> <<>>]]
    [] id = "ntp6" ->
         [entry |-> TRUE,
          info |-> [Protocol |-> "udp", State |-> <<"U", "N", "C", "O", "N", "N">>,
                   Address |-> <<":", ":", "1">>, Port |-> 323, PID |-> 77,
                   ProcessName |-> <<"c", "h", "r", "o", "n", "y", "d">>]]
    [] id = "plex" ->
         [entry |-> TRUE,
          info |-> [Protocol |-> "tcp", State |-> <<"L", "I", "S", "T", "E", "N">>,
                   Address |-> <<"0", ".", "0", ".", "0", ".", "0">>, Port |-> 32400, PID |-> 77,
                   ProcessName |-> <<"P", "l", "e", "x", " ", "M", "e", "d", "i", "a">>]]

\* the fields of a PortInfo that parseSSLine parses
Parsed(e) ==
  [Protocol |-> e.Protocol, State |-> e.State, Address |-> e.Address, Port |-> e.Port,
   PID |-> e.PID, ProcessName |-> e.ProcessName]

\* C19: each line of ss with a known protocol gives an entry with protocol tcp or
\* udp, the second token as state, the address and port of the fifth token and the
\* name and pid of the first tuple of its users:((...)) annotation; a line with an
\* unknown protocol gives no entry.
C19_SsLineParsed ==
  [][(ppc = "ssparse" /\ pline' = pline + 1) =>
       LET x == SsExpected(penv.ss.out[pline])
       IN IF x.entry
          THEN /\ Len(pports') = Len(pports) + 1
               /\ Parsed(pports'[Len(pports')]) = x.info
          ELSE pports' = pports]_vars

\* the decimal value of a byte of an address and of a port, by name
ByteDec(b) ==
  CASE b = "00" -> <<"0">>
    [] b = "01" -> <<"1">>
    [] b = "7F" -> <<"1", "2", "7">>
    [] b = "FF" -> <<"2", "5", "5">>
    [] b = "0a" -> <<"1", "0">>
    [] b = "A8" -> <<"1", "6", "8">>
    [] b = "C0" -> <<"1", "9", "2">>
    [] b = "10" -> <<"1", "6">>
    [] b = "AC" -> <<"1", "7", "2">>
PortDec(q) ==
  CASE q = "1F90" -> 8080
    [] q = "0050" -> 80
    [] q = "0016" -> 22
    [] q = "0035" -> 53
    [] q = "FFFF" -> 65535
    [] q = "0000" -> 0
    [] q = "1f90" -> 8080

\* the address the claim gives for the local address a of a line
ExpectedAddr(a) ==
  IF Len(a) = 1 THEN <<":", ":">>
  ELSE ByteDec(a[4]) \o <<".">> \o ByteDec(a[3]) \o <<".">> \o ByteDec(a[2])
         \o <<".">> \o ByteDec(a[1])

\* the line is a socket Strategy B reports: a listening tcp socket, or a udp socket
Reported(l, protocol) == l.kind = "sock" /\ (protocol = "udp" \/ l.st = <<"0", "A">>)

ReturnedPids == {qret.Processes[i].PID : i \in 1..Len(qret.Processes)}

\* C21: when the detail lookups of one process fail (it exited during the scan),
\* that process is absent from the result of the process collector, every other
\* listed process is in it, and Collect returns no error.
C21_FailedProcessSkipped ==
  (qpc = "done" /\ qprocs # <<>>) =>
    /\ ~qret.err
    /\ \A i \in 1..Len(qprocs) : (qprocs[i] \in ReturnedPids) <=> (qprocs[i] \notin qfail)

\* C22: a collector whose constructor failed is never registered and its Collect is
\* never invoked, the agent starts with the remaining collectors (the ones that
\* are always enabled among them), and the registered set never changes.
C22_FailedNeverRegistered ==
  /\ [](\A c \in ctorErr : c \notin Registered /\ wstate[c] = "idle")
  /\ []("host" \in Registered)
  /\ [][collectors' = collectors /\ ctorErr' = ctorErr]_vars

\* the docker constructor failed, systemd's did not, and a tick has stored the
\* data of the host and systemd collectors
C22_Witness ==
  /\ ctorErr = {"docker"}
  /\ Registered = {"host", "systemd"}
  /\ Stored
  /\ OkSet = {"host", "systemd"}
  /\ Snap.SystemdUnits # <<>>
  /\ Snap.Containers = <<>>

\* pid is the main pid of a container or of a unit of the data
PidMatches(d, pid) ==
  \/ \E i \in 1..Len(d.Containers) : d.Containers[i].Pid = pid /\ pid > 0
  \/ \E i \in 1..Len(d.SystemdUnits) : d.SystemdUnits[i].MainPID = pid /\ pid > 0

\* entry b is entry a up to its container, pod and systemd fields
SameButEnrichment(a, b) ==
  /\ DOMAIN a = DOMAIN b
  /\ \A f \in DOMAIN a \ {"ContainerID", "ContainerName", "ContainerImage", "PodName",
                             "PodNamespace", "SystemdUnit"} : a[f] = b[f]

\* list after is list before: as long, in the same order, an entry whose pid
\* matches changed in its enrichment fields at most, any other entry not at all
ListFrame(d, old, new) ==
  /\ Len(new) = Len(old)
  /\ \A i \in 1..Len(old) :
       IF PidMatches(d, old[i].PID) THEN SameButEnrichment(old[i], new[i])
       ELSE new[i] = old[i]

\* C23: the step of collect that runs enrichData changes only the container, pod
\* and systemd fields of the processes and ports whose pid matches a container's or
\* a unit's main pid; every other process and port (pid 0 among them), the
\* containers, units, pods and system, and the number and order of the entries stay
\* as they were, and no collector is invoked.
C23_EnrichmentFrame ==
  [][(mpc = "merge" /\ mpc' = "store") =>
       LET d == heap[tickNo]
           e == heap'[tickNo]
       IN /\ ListFrame(d, d.Processes, e.Processes)
          /\ ListFrame(d, d.Ports, e.Ports)
          /\ e.Containers = d.Containers
          /\ e.SystemdUnits = d.SystemdUnits
          /\ e.Pods = d.Pods
          /\ e.System = d.System
          /\ \A q \in DOMAIN heap \ {tickNo} : heap'[q] = heap[q]
          /\ UNCHANGED <<wstate, ret, wg, results, errors, tickNo>>]_vars

\* enrichData has run over the data of all three collectors: process 100 took its
\* container, while process 300, whose pid matches nothing, kept the container id
\* and the unit its collector gave it, and the port of pid 0 is as it was
C23_Witness ==
  /\ mpc = "store"
  /\ Len(Snap.Containers) = 3 /\ Len(Snap.SystemdUnits) = 3
  /\ \E i \in 1..Len(Snap.Processes) :
       Snap.Processes[i].PID = 100 /\ Snap.Processes[i].ContainerID = "c1"
  /\ Proc(300, "abcdef123456", "cron.service") \in SeqToSet(Snap.Processes)
  /\ PortE(53, 0) \in SeqToSet(Snap.Ports)

\* the workers of this tick that have finished (their deferred wg.Done() has run)
Finished == {c \in Registered : wstate[c] \in {"ok", "err"}}

\* C24: in every tick a worker sends one value at most, its result or its error,
\* on a channel with room for one value per collector, so the send of a running
\* worker can always be taken although nothing reads the errors channel; the
\* channels are closed only when every worker has finished, and the merge loop
\* ends exactly then: not before, and once they have it can always go on to its end.
C24_FanInNeverBlocks ==
  /\ Len(errors) = Cardinality(ErrSet)
  /\ Len(results) + Len(merged) = Cardinality(OkSet)
  /\ SeqToSet(errors) = ErrSet
  /\ SeqToSet(results) \cup SeqToSet(merged) = OkSet
  /\ \A c \in Registered :
       (Alive /\ wstate[c] = "running") => (ENABLED CollectOk(c) /\ ENABLED CollectErr(c))
  /\ closed => (Finished = Registered /\ wg = 0)
  /\ (tickNo > 0 /\ mpc # "merge") => (closed /\ results = <<>>)
  /\ (Alive /\ mpc = "merge" /\ Finished = Registered)
       => ENABLED (CloseChannels \/ MergeOne \/ FinishMerge)

\* a second tick in which two of three workers sent an error that nobody read and
\* the merge loop ended with the one result
C24_Witness ==
  /\ tickNo = 2
  /\ mpc = "store"
  /\ Len(collectors) = 3
  /\ Len(errors) = 2
  /\ Len(merged) = 1
  /\ closed

\* C25: a snapshot is the cached latest before it is sent to a subscriber: what a
\* channel holds and what a subscriber has received is never later than the cached
\* latest, a send happens only with this tick's snapshot stored, and a
\* GetLatestData call returns the snapshot a subscriber received before it, or a
\* later one.
C25_StoredBeforeSent ==
  /\ [](\A ch \in Chans :
          /\ lastRecv[ch] <= latestData
          /\ \A i \in 1..Len(chanBuf[ch]) : chanBuf[ch][i] <= latestData)
  /\ [][/\ (\E ch \in Chans : Len(chanBuf'[ch]) > Len(chanBuf[ch])) => latestData = tickNo
        /\ HandleData => \A ch \in Chans : got' >= lastRecv[ch]]_vars

\* the subscriber has received the snapshot of tick 2 while notifySubscribers of
\* that tick is still running, and a GetLatestData call has returned tick 2
C25_Witness ==
  /\ mpc = "notify"
  /\ tickNo = 2
  /\ \E ch \in Chans : lastRecv[ch] = 2
  /\ got = 2

\* the first collect call has returned and no ticker-driven one has begun
FirstCollectDone == tickNo = 1 /\ mpc \in {"select", "stopped"}

\* channel ch was subscribed when Start was called
SubscribedAtStart(ch) == mpc = "new" /\ ch \in SeqToSet(subscribers)

\* the snapshot of tick 1 has been sent to the subscriber still connected on ch:
\* it is queued in ch or was the last it received, and it holds the entries of
\* every collector that returned a result
FirstDelivered(ch) ==
  (hpc[ch] \in {"initial", "loop"}) =>
    /\ lastRecv[ch] = 1 \/ 1 \in SeqToSet(chanBuf[ch])
    /\ \A c \in OkSet : ListsContained(ret[c], heap[1])

\* C26: the first step of Start is a collect call, made without waiting for the
\* ticker; when every Collect returns, that first collection completes; and a
\* subscriber registered before Start (and not gone since) has been sent its
\* snapshot, which holds the collectors' data, when it has completed. The
\* channels are those that Subscribe makes in these runs.
C26_InitialCollection ==
  /\ [][mpc = "new" => (mpc' = "new" \/ (mpc' = "merge" /\ tickNo' = 1))]_vars
  /\ (mpc = "merge" /\ tickNo = 1) ~> FirstCollectDone
  /\ \A ch \in 1..MaxSpecSubs :
       [](SubscribedAtStart(ch) => [](FirstCollectDone => FirstDelivered(ch)))

\* the first collect call has returned, and the subscriber has received its
\* snapshot with the data of three collectors
C26_Witness ==
  /\ FirstCollectDone
  /\ \E ch \in Chans : hpc[ch] = "loop" /\ lastRecv[ch] = 1
  /\ Cardinality(OkSet) = 3
  /\ Len(heap[1].Processes) = 4 /\ Len(heap[1].Containers) = 3

\* snapshot p has been placed: it is the cached latest, or it is queued in a
\* subscriber channel, or a subscriber or a reader has got it
Placed(p) ==
  \/ p = latestData
  \/ p = got
  \/ \E ch \in Chans : p = lastRecv[ch] \/ p \in SeqToSet(chanBuf[ch])

\* C27: no step of the Manager changes a snapshot that has been stored as latest
\* or published; the store installs this tick's newly allocated snapshot, which
\* was never placed before, leaves it as merging and enrichment made it, and
\* leaves the previous latest as it was.
C27_PlacedNeverModified ==
  [][/\ \A p \in DOMAIN heap : Placed(p) => (p \in DOMAIN heap' /\ heap'[p] = heap[p])
     /\ latestData' # latestData =>
          /\ latestData' = tickNo
          /\ latestData' > latestData
          /\ ~Placed(tickNo)
          /\ heap' = heap]_vars

\* tick 2 has been stored and queued while the subscriber still holds the snapshot
\* of tick 1, whose containers are not in the snapshot of tick 2
C27_Witness ==
  /\ latestData = 2
  /\ \E ch \in Chans : lastRecv[ch] = 1 /\ chanBuf[ch] = <<2>>
  /\ heap[1].Containers # <<>>
  /\ heap[2].Containers = <<>>
  /\ heap[2].Processes # <<>>

\* s without its entries equal to ch, in the order of s
Without(s, ch) == SelectSeq(s, LAMBDA x : x # ch)

\* C28: an Unsubscribe call for a channel that was removed before, or that was
\* never subscribed, changes neither the subscribers nor any channel; a channel is
\* closed in one step only, the one that removes it from the subscribers, so never
\* twice; and that step leaves the other subscribers registered in their order,
\* their channels open and as they were; the next notifySubscribers ranges over
\* all that are registered.
C28_UnsubscribeIdempotent ==
  /\ [](\A ch \in Chans :
          /\ Count(subscribers, ch) <= 1
          /\ chanClosed[ch] => Count(subscribers, ch) = 0)
  /\ [][/\ ((\E ch \in Chans : UnsubscribeAgain(ch)) \/ UnsubscribeForeign(MaxSubs + 2))
            => UNCHANGED <<subscribers, chanClosed, chanBuf, panicMsg>>
        /\ \A ch \in Chans :
             /\ chanClosed[ch] => chanClosed'[ch]
             /\ (chanClosed'[ch] /\ ~chanClosed[ch]) =>
                  /\ Count(subscribers, ch) = 1
                  /\ subscribers' = Without(subscribers, ch)
                  /\ \A o \in Chans \ {ch} : chanClosed'[o] = chanClosed[o]
                  /\ chanBuf' = chanBuf
        /\ (mpc = "publish" /\ mpc' = "notify") => nlist' = subscribers]_vars

\* of three subscribers the second was removed and Unsubscribe was called for it
\* again, another caller passed a channel of its own, and the first and the third
\* subscriber, still registered in that order, have been sent the next snapshot
C28_Witness ==
  /\ subscribers = <<1, 3>>
  /\ ucalled = {2, 4}
  /\ chanClosed = <<FALSE, TRUE, FALSE, FALSE>>
  /\ tickNo = 2
  /\ 2 \notin SeqToSet(chanBuf[2])
  /\ 2 \in SeqToSet(chanBuf[1])
  /\ 2 \in SeqToSet(chanBuf[3])

\* C29: a subscriber channel never holds more than ten snapshots; a buffer changes
\* only by a send that appends this tick's snapshot behind the queued ones, which
\* happens only with fewer than ten queued, or by a receive that takes the oldest;
\* so for a full channel the new snapshot is the one discarded, and the queued ones
\* are delivered later in the order they were sent.
C29_BoundedDropNewest ==
  /\ [](\A ch \in Chans : Len(chanBuf[ch]) <= ChanCap)
  /\ [][\A ch \in Chans :
          \/ chanBuf'[ch] = chanBuf[ch]
          \/ /\ Len(chanBuf[ch]) < ChanCap
             /\ chanBuf'[ch] = Append(chanBuf[ch], tickNo)
             /\ lastRecv'[ch] = lastRecv[ch]
          \/ /\ chanBuf[ch] # <<>>
             /\ chanBuf'[ch] = Tail(chanBuf[ch])
             /\ lastRecv'[ch] = Head(chanBuf[ch])]_vars

\* the snapshot of tick 11 found the channel full with those of ticks 1 to 10 and
\* was discarded; the subscriber has since received 1 and 2, and 12 is queued
\* behind the others
C29_Witness ==
  \E ch \in Chans :
    /\ lastRecv[ch] = 2
    /\ chanBuf[ch] = <<3, 4, 5, 6, 7, 8, 9, 10, 12>>

\* the process name the ss annotations of the host give for a pid
AnnotatedName(pid) ==
  CASE pid = 1234 -> <<"n", "g", "i", "n", "x">>
    [] pid = 200 -> <<"s", "s", "h", "d">>
    [] pid = 77 -> <<"c", "h", "r", "o", "n", "y", "d">>
    [] OTHER -> <<>>

\* entry e carries the command line, user and executable that /proc shows for
\* its pid
OwnerFilled(e) ==
  \E i \in 1..Len(ProcDirs) :
    /\ ProcDirs[i].name = Itoa(e.PID)
    /\ e.Cmdline = ProcDirs[i].cmdline
    /\ e.Username = ProcDirs[i].username
    /\ e.Exe = ProcDirs[i].exe

====
